---- MODULE Spec2Model ----
(***************************************************************************)
(* A model of izi-queue: the job rows kept by the storage adapters, the    *)
(* per-queue dispatcher (Queue), the lifecycle executor and the background *)
(* loops (stager, rescuer), written from the TypeScript sources.           *)
(*                                                                         *)
(* Time is a discrete clock `now`; one tick is the resolution at which the *)
(* timestamps of a row are compared.  A timestamp column that is SQL NULL  *)
(* holds NULL.  An error record is kept by its `attempt` field.            *)
(***************************************************************************)
EXTENDS Integers, Sequences, FiniteSets, TLC

\* ------------------------------------------------------------------ bounds
MaxJobs == 1
MaxTime == 3
AttemptCap == 3
RescueAfter == 1
SnoozeSeconds == 1

NULL == -1

Min(a, b) == IF a < b THEN a ELSE b

Range(s) == {s[i] : i \in DOMAIN s}

\* ------------------------------------------------------- job state machine
JobStates ==
  {"scheduled", "available", "executing", "retryable",
   "completed", "discarded", "cancelled"}

STATE_TRANSITIONS(from) ==
  CASE from = "scheduled" -> {"available", "cancelled"}
    [] from = "available" -> {"executing", "cancelled"}
    [] from = "executing" -> {"completed", "retryable", "discarded", "cancelled"}
    [] from = "retryable" -> {"available", "cancelled"}
    [] OTHER -> {}

TERMINAL_STATES == {"completed", "discarded", "cancelled"}

isValidTransition(from, to) == to \in STATE_TRANSITIONS(from)

isTerminal(state) == state \in TERMINAL_STATES

\* createJob(worker, options) evaluated at time t.  options.scheduledAt is
\* NULL when the caller gave none.
\* Job.meta as the values of its keys, NULL for a key it does not have: "tag"
\* stands for the keys of the caller, "snoozedAt" is the key of handleSnooze.
NoMeta == [tag |-> NULL, snoozedAt |-> NULL]

createJob(worker, options, t) ==
  [state |-> IF options.scheduledAt # NULL /\ options.scheduledAt > t
             THEN "scheduled" ELSE "available",
   queue |-> options.queue,
   worker |-> worker,
   args |-> options.args,
   meta |-> IF "meta" \in DOMAIN options THEN options.meta ELSE NoMeta,
   errors |-> <<>>,
   attempt |-> 0,
   maxAttempts |-> options.maxAttempts,
   priority |-> options.priority,
   scheduledAt |-> IF options.scheduledAt # NULL THEN options.scheduledAt ELSE t,
   attemptedAt |-> NULL,
   completedAt |-> NULL,
   discardedAt |-> NULL,
   cancelledAt |-> NULL]

formatError(attempt) == attempt

\* ------------------------------------------------------- adapter operations
\* The table izi_jobs is a sequence of rows; a row's id is its index.

insertJob(rows, job, t) == Append(rows, [insertedAt |-> t] @@ job)

\* ORDER BY priority ASC, scheduled_at ASC, id ASC
Before(rows, i, j) ==
  \/ rows[i].priority < rows[j].priority
  \/ /\ rows[i].priority = rows[j].priority
     /\ rows[i].scheduledAt < rows[j].scheduledAt
  \/ /\ rows[i].priority = rows[j].priority
     /\ rows[i].scheduledAt = rows[j].scheduledAt
     /\ i < j

RECURSIVE OrderBy(_, _)
OrderBy(rows, S) ==
  IF S = {} THEN <<>>
  ELSE LET m == CHOOSE i \in S : \A j \in S \ {i} : Before(rows, i, j)
       IN <<m>> \o OrderBy(rows, S \ {m})

\* A SELECT without its LIMIT.
TakeAll(seq, n) == seq

Take(seq, n) == SubSeq(seq, 1, Min(n, Len(seq)))

\* SELECT id ... WHERE queue = ? AND state = 'available' ORDER BY ... LIMIT ?
SelectAvailable(rows, queue, limit) ==
  Take(OrderBy(rows, {i \in DOMAIN rows :
                        rows[i].queue = queue /\ rows[i].state = "available"}),
       limit)

\* UPDATE ... SET state = 'executing', attempted_at = now, attempt = attempt + 1
\* WHERE id IN (ids)
UpdateFetched(rows, ids, t) ==
  [i \in DOMAIN rows |->
     IF i \in ids
     THEN [rows[i] EXCEPT !.state = "executing", !.attemptedAt = t,
                          !.attempt = Min(@ + 1, AttemptCap)]
     ELSE rows[i]]

\* updateJob: each column is COALESCE(given, column); `updates` is a record
\* holding the fields the caller gave.
Coalesce(updates, field, old) ==
  IF field \in DOMAIN updates THEN updates[field] ELSE old

updateJob(rows, id, updates) ==
  [i \in DOMAIN rows |->
     IF i = id
     THEN [rows[i] EXCEPT
             !.state = Coalesce(updates, "state", @),
             !.errors = Coalesce(updates, "errors", @),
             !.completedAt = Coalesce(updates, "completedAt", @),
             !.discardedAt = Coalesce(updates, "discardedAt", @),
             !.cancelledAt = Coalesce(updates, "cancelledAt", @),
             !.scheduledAt = Coalesce(updates, "scheduledAt", @),
             !.meta = Coalesce(updates, "meta", @)]
     ELSE rows[i]]

\* UPDATE ... SET state = 'available'
\* WHERE state = 'scheduled' AND scheduled_at <= now
stageJobs(rows, t) ==
  [i \in DOMAIN rows |->
     IF rows[i].state = "scheduled" /\ rows[i].scheduledAt <= t
     THEN [rows[i] EXCEPT !.state = "available"]
     ELSE rows[i]]

\* A cancel whose WHERE clause lacks state NOT IN (terminal states).
cancelAnyState(rows, criteria, t) ==
  [i \in DOMAIN rows |->
     IF /\ (criteria.queue # "" => rows[i].queue = criteria.queue)
        /\ (criteria.worker # "" => rows[i].worker = criteria.worker)
        /\ (criteria.state # {} => rows[i].state \in criteria.state)
     THEN [rows[i] EXCEPT !.state = "cancelled", !.cancelledAt = t]
     ELSE rows[i]]

\* cancelJobs(criteria): criteria.queue / criteria.worker are "" and
\* criteria.state is {} when not given.
cancelJobs(rows, criteria, t) ==
  [i \in DOMAIN rows |->
     IF /\ rows[i].state \notin {"completed", "discarded", "cancelled"}
        /\ (criteria.queue # "" => rows[i].queue = criteria.queue)
        /\ (criteria.worker # "" => rows[i].worker = criteria.worker)
        /\ (criteria.state # {} => rows[i].state \in criteria.state)
     THEN [rows[i] EXCEPT !.state = "cancelled", !.cancelledAt = t]
     ELSE rows[i]]

\* A rescue that does not look at the age of the attempt.
rescueAnyExecuting(rows, rescueAfter, t) ==
  [i \in DOMAIN rows |->
     IF rows[i].state = "executing"
     THEN [rows[i] EXCEPT !.state = "available", !.scheduledAt = t]
     ELSE rows[i]]

\* UPDATE ... SET state = 'available', scheduled_at = now
\* WHERE state = 'executing' AND attempted_at < now - rescueAfter
rescueStuckJobs(rows, rescueAfter, t) ==
  [i \in DOMAIN rows |->
     IF /\ rows[i].state = "executing"
        /\ rows[i].attemptedAt # NULL
        /\ rows[i].attemptedAt < t - rescueAfter
     THEN [rows[i] EXCEPT !.state = "available", !.scheduledAt = t]
     ELSE rows[i]]


\* ----------------------------------------------------------- worker registry
\* Registered workers and what their handlers may return.  "Missing" is a
\* worker name that no process registered.
RegisteredWorkers == {"Worker", "AlwaysFail", "FailTwice", "SnoozeOnce"}

hasWorker(name) == name \in RegisteredWorkers

\* The results perform(job) can end in (a thrown exception and a timeout are
\* turned into an error result by executeWorker).  "FailTwice" is the handler
\* of the retry scenario: it fails on attempts 1 and 2 and succeeds on 3.
\* "SnoozeOnce" is the handler of the snooze scenario: it returns snooze on its
\* first attempt and ok afterwards.
HandlerResults(job) ==
  CASE job.worker = "Worker" -> {"ok", "error", "cancel", "snooze"}
    [] job.worker = "AlwaysFail" -> {"error"}
    [] job.worker = "FailTwice" -> IF job.attempt < 3 THEN {"error"} ELSE {"ok"}
    [] job.worker = "SnoozeOnce" -> IF job.attempt < 2 THEN {"snooze"} ELSE {"ok"}
    [] OTHER -> {}

\* WorkerDefinition.backoff in milliseconds, NULL when the worker has none.
WorkerBackoff(name) == IF name = "AlwaysFail" THEN 1000 ELSE NULL

Pow2(n) == IF n = 0 THEN 1 ELSE IF n = 1 THEN 2 ELSE IF n = 2 THEN 4
           ELSE IF n = 3 THEN 8 ELSE IF n = 4 THEN 16 ELSE IF n = 5 THEN 32
           ELSE IF n = 6 THEN 64 ELSE IF n = 7 THEN 128 ELSE IF n = 8 THEN 256
           ELSE IF n = 9 THEN 512 ELSE 1024

\* Math.random() * 2 - 1, in tenths of the extreme values
JitterSet == {-1, 0, 1}

\* calculateBackoff(attempt) with the default options, in milliseconds;
\* r is the value of (Math.random() * 2 - 1).
calculateBackoff(attempt, r) ==
  LET power == Min(attempt, 10)
      base == 15 + 1 * Pow2(power)
      jitter100 == base * 10 * r
  IN base * 1000 + jitter100 * 10

getBackoffDelay(job, r) ==
  IF WorkerBackoff(job.worker) # NULL
  THEN WorkerBackoff(job.worker)
  ELSE calculateBackoff(job.attempt, r)

\* ------------------------------------------------------- lifecycle executor
\* Each handle* gives the partial row that Queue passes to updateJob.
handleSuccess(job, t) == [state |-> "completed", completedAt |-> t]

handleError(job, t, r) ==
  LET newErrors == Append(job.errors, formatError(job.attempt))
  IN IF job.attempt >= job.maxAttempts
     THEN [state |-> "discarded", errors |-> newErrors, discardedAt |-> t]
     ELSE [state |-> "retryable", errors |-> newErrors,
           scheduledAt |-> t + (getBackoffDelay(job, r) \div 1000)]

handleCancel(job, t) ==
  [state |-> "cancelled",
   errors |-> Append(job.errors, formatError(job.attempt)),
   cancelledAt |-> t]

\* A snooze that writes a meta object holding snoozedAt alone.
handleSnoozeFreshMeta(job, seconds, t) ==
  [state |-> "scheduled", scheduledAt |-> t + seconds,
   meta |-> [NoMeta EXCEPT !.snoozedAt = t]]

handleSnooze(job, seconds, t) ==
  [state |-> "scheduled", scheduledAt |-> t + seconds,
   meta |-> [job.meta EXCEPT !.snoozedAt = t]]

\* What Queue.execute writes for a result of the handler.
OutcomeUpdates(job, result, t, r) ==
  CASE result = "ok" -> handleSuccess(job, t)
    [] result = "error" -> handleError(job, t, r)
    [] result = "cancel" -> handleCancel(job, t)
    [] result = "snooze" -> handleSnooze(job, SnoozeSeconds, t)

\* The results an execution of `job` can end in: an unregistered worker is an
\* error without any handler being invoked.
ExecuteResults(job) ==
  IF hasWorker(job.worker) THEN HandlerResults(job) ELSE {"error"}

\* ------------------------------------------------------------------ state
VARIABLES
  now,        \* the clock
  adapter,    \* the storage adapter the instances were configured with
  jobs,       \* table izi_jobs
  running,    \* Queue.running of each dispatcher: the job ids it holds
  execs,      \* executions in progress: [disp, job] with the fetched row
  invoked,    \* per job id, how many times a handler was invoked for it
  drainPc,    \* where IziQueue.drain() of process d1 stands
  drainJobs,  \* the fetched ids drain() still has to write back
  timers,     \* per dispatcher, the poll timers that are pending
  wakes,      \* per dispatcher, the notifications not yet delivered
  inflight,   \* per dispatcher, the fetchJobs results not yet resolved
  calls,      \* per caller, where its fetchJobs call stands in the database
  returned,   \* the non-empty arrays fetchJobs calls resolved with
  lastInsert, \* what the last insertWithResult call did
  lastCall,   \* the last adapter call made directly, and the number it returned
  dispatcher, \* the Queue object of dispatcher d1 and the calls made on it
  telemetry,  \* the Telemetry singleton: subscriptions, emits and deliveries
  race,       \* one executeWorker call: the handler, the timer, the result
  pool,       \* the ThreadPool of isolated workers
  izi,        \* one IziQueue being constructed and what it has started
  inserts     \* per caller, where its insertWithResult call stands

pollVars == <<timers, wakes, inflight>>

fetchVars == <<calls, returned>>

coreVars == <<telemetry, race, pool, izi, inserts>>

auxVars ==
  <<adapter, pollVars, fetchVars, lastInsert, lastCall, dispatcher, coreVars>>

vars == <<now, jobs, running, execs, invoked, drainPc, drainJobs, auxVars>>

\* Two processes, each running one dispatcher for the queue "default".
Disps == {"d1", "d2"}

QueueName(d) == "default"

QueueLimit == 1

limit(d) == QueueLimit

\* fetchJobs as one atomic step: the ids claimed, in the order returned.
fetchJobs(rows, queue, n) == SelectAvailable(rows, queue, n)

WithId(rows, i) == [id |-> i] @@ rows[i]

\* The attempt counter is capped so that the model is finite.
Capped(rows, ids) == \A i \in ids : rows[i].attempt < AttemptCap

\* Queue.poll with the fetch completing at once: the rows are claimed, an
\* execution is started for each and its id is put into Queue.running.
PollEffectN(d, n, rows, run, ex, inv) ==
  LET available == n - Cardinality(run[d])
      ids == IF available <= 0 THEN {}
             ELSE Range(fetchJobs(rows, QueueName(d), available))
      rows2 == UpdateFetched(rows, ids, now)
  IN [jobs |-> rows2,
      running |-> [run EXCEPT ![d] = @ \cup ids],
      execs |-> ex \cup {[disp |-> d, job |-> WithId(rows2, i)] : i \in ids},
      invoked |-> [i \in DOMAIN inv |->
                     IF i \in ids /\ hasWorker(rows[i].worker)
                     THEN inv[i] + 1 ELSE inv[i]],
      ids |-> ids]

PollEffect(d, rows, run, ex, inv) ==
  PollEffectN(d, limit(d), rows, run, ex, inv)

InsertOptions ==
  [queue : {"default"}, args : {"a"}, maxAttempts : {1, 2}, priority : {0},
   scheduledAt : {NULL, 1}]

InsertWorkers == {"Worker", "AlwaysFail", "Missing"}

Adapters == {"postgres", "mysql", "sqlite"}

IdleCall == [pc |-> "idle", limit |-> 0, cand |-> <<>>, held |-> <<>>,
             ids |-> <<>>, stale |-> FALSE]

NoInsert == [called |-> FALSE, existed |-> FALSE, conflict |-> FALSE,
             emitted |-> FALSE, id |-> 0, added |-> 0]

NoCall == [op |-> "none", n |-> 0]

\* The instances after construction and start() over an empty table: every
\* dispatcher is running and has its first poll timer pending.
\* A Queue as its constructor leaves it.  pollTimer tells whether the timer
\* that this.pollTimer refers to is pending; orphans counts the pending poll
\* timers it no longer refers to.  last is the last call of start, stop, pause
\* or resume with the events it emitted; stopPc is where a call of stop()
\* stands and waitFor the executions it waits for; catching and rejected are
\* the executions in the catch block of execute and those that rejected;
\* faults counts the adapter calls that threw; abandoned are the executions
\* that were in flight when the grace period of a stop() ran out.
NoOp == [op |-> "none", before |-> "stopped", after |-> "stopped",
         events |-> <<>>]

NewQueue(paused) ==
  [paused |-> paused, state |-> "stopped", pollTimer |-> FALSE, orphans |-> 0,
   last |-> NoOp, stopPc |-> "idle", waitFor |-> {}, catching |-> {},
   rejected |-> {}, faults |-> 0, abandoned |-> {}]

\* The Telemetry singleton without subscriptions.
NewTelemetry ==
  [handlers |-> <<>>, stack |-> <<>>, emitted |-> <<>>, delivered |-> <<>>,
   threw |-> FALSE, once |-> {}, removed |-> {}]

NoRace == [pc |-> "none"]

NoPool == [pc |-> "none"]

NoIzi == [pc |-> "none"]

\* The callers of insertWithResult, none of them in a call.
Callers == {"c1", "c2"}

NoInserts == [c \in Callers |-> [pc |-> "idle"]]

\* Nothing of the core has been used yet.
CoreIdle ==
  /\ telemetry = NewTelemetry
  /\ race = NoRace
  /\ pool = NoPool
  /\ izi = NoIzi
  /\ inserts = NoInserts

Started(a) ==
  /\ now = 0
  /\ adapter = a
  /\ jobs = <<>>
  /\ running = [d \in Disps |-> {}]
  /\ execs = {}
  /\ invoked = <<>>
  /\ drainPc = "idle"
  /\ drainJobs = <<>>
  /\ timers = [d \in Disps |-> 1]
  /\ wakes = [d \in Disps |-> 0]
  /\ inflight = [d \in Disps |-> <<>>]
  /\ calls = [d \in Disps |-> IdleCall]
  /\ returned = <<>>
  /\ lastInsert = NoInsert
  /\ lastCall = NoCall
  /\ dispatcher = NewQueue(FALSE)
  /\ CoreIdle

\* The lifecycle is followed over the SQLite adapter, whose fetchJobs runs to
\* its end without yielding: a poll is one step.
Init == Started("sqlite")

\* IziQueue.insert without a unique option
Insert ==
  /\ Len(jobs) < MaxJobs
  /\ \E w \in InsertWorkers, o \in InsertOptions :
       /\ jobs' = insertJob(jobs, createJob(w, o, now), now)
       /\ invoked' = Append(invoked, 0)
  /\ UNCHANGED <<now, running, execs, drainPc, drainJobs>>
  /\ UNCHANGED auxVars

Tick ==
  /\ now < MaxTime
  /\ now' = now + 1
  /\ UNCHANGED <<jobs, running, execs, invoked, drainPc, drainJobs>>
  /\ UNCHANGED auxVars

\* The poll timer of dispatcher d fires.
Poll(d) ==
  LET p == PollEffect(d, jobs, running, execs, invoked)
  IN /\ p.ids # {}
     /\ Capped(jobs, p.ids)
     /\ jobs' = p.jobs
     /\ running' = p.running
     /\ execs' = p.execs
     /\ invoked' = p.invoked
     /\ UNCHANGED <<now, drainPc, drainJobs>>
     /\ UNCHANGED auxVars

\* An execution ends: Queue.execute maps the result to one updateJob, and the
\* promise's finally removes the job id from Queue.running.
Finish(e) ==
  /\ e \in execs
  /\ \E result \in ExecuteResults(e.job), r \in JitterSet :
       /\ (result # "error" \/ e.job.attempt >= e.job.maxAttempts
             \/ WorkerBackoff(e.job.worker) # NULL => r = 0)
       /\ jobs' = updateJob(jobs, e.job.id, OutcomeUpdates(e.job, result, now, r))
  /\ execs' = execs \ {e}
  /\ running' = [running EXCEPT ![e.disp] = @ \ {e.job.id}]
  /\ UNCHANGED <<now, invoked, drainPc, drainJobs>>
  /\ UNCHANGED auxVars

\* IziQueue.stageJobs of the process of dispatcher d (the stage timer): the
\* rows are staged and, when at least one was, the dispatcher is woken.
Stage(d) ==
  LET staged == stageJobs(jobs, now)
      p == PollEffect(d, staged, running, execs, invoked)
  IN /\ staged # jobs
     /\ Capped(staged, p.ids)
     /\ jobs' = p.jobs
     /\ running' = p.running
     /\ execs' = p.execs
     /\ invoked' = p.invoked
     /\ UNCHANGED <<now, drainPc, drainJobs>>
     /\ UNCHANGED auxVars

\* LifelinePlugin.rescue / IziQueue.rescueStuckJobs
Rescue ==
  /\ jobs' = rescueStuckJobs(jobs, RescueAfter, now)
  /\ jobs' # jobs
  /\ UNCHANGED <<now, running, execs, invoked, drainPc, drainJobs>>
  /\ UNCHANGED auxVars

CancelCriteria ==
  {[queue |-> "", worker |-> "", state |-> {}],
   [queue |-> "default", worker |-> "Worker", state |-> {"executing"}]}

\* IziQueue.cancelJobs
Cancel ==
  /\ \E c \in CancelCriteria : jobs' = cancelJobs(jobs, c, now)
  /\ jobs' # jobs
  /\ UNCHANGED <<now, running, execs, invoked, drainPc, drainJobs>>
  /\ UNCHANGED auxVars

\* IziQueue.drain() called in the process of d1.  It first stages (and wakes
\* the dispatcher as the stage timer does) ...
DrainBeginOn(awake, capped) ==
  LET staged == stageJobs(jobs, now)
      p == IF staged # jobs /\ awake
           THEN PollEffect("d1", staged, running, execs, invoked)
           ELSE [jobs |-> jobs, running |-> running, execs |-> execs,
                 invoked |-> invoked, ids |-> {}]
  IN /\ drainPc = "idle"
     /\ jobs # <<>>
     /\ capped => Capped(staged, p.ids)
     /\ jobs' = p.jobs
     /\ running' = p.running
     /\ execs' = p.execs
     /\ invoked' = p.invoked
     /\ drainPc' = "fetch"
     /\ UNCHANGED <<now, drainJobs>>
     /\ UNCHANGED auxVars

DrainBegin ==
  /\ drainPc = "idle"
  /\ DrainBeginOn(TRUE, TRUE)

\* ... then fetches queue.limit jobs itself; with none fetched it returns ...
DrainFetchOn(capped) ==
  LET fetched == fetchJobs(jobs, QueueName("d1"), limit("d1"))
  IN /\ drainPc = "fetch"
     /\ capped => Capped(jobs, Range(fetched))
     /\ jobs' = UpdateFetched(jobs, Range(fetched), now)
     /\ drainJobs' = fetched
     /\ drainPc' = IF fetched = <<>> THEN "idle" ELSE "write"
     /\ UNCHANGED <<now, running, execs, invoked>>
     /\ UNCHANGED auxVars

DrainFetch ==
  /\ drainPc = "fetch"
  /\ DrainFetchOn(TRUE)

\* ... writes each fetched job back as available, and after the last one
\* wakes the dispatcher and sleeps ...
DrainWriteOn(awake, capped) ==
  LET rows2 == updateJob(jobs, Head(drainJobs), [state |-> "available"])
      last == Len(drainJobs) = 1
      p == IF last /\ awake
           THEN PollEffect("d1", rows2, running, execs, invoked)
           ELSE [jobs |-> rows2, running |-> running, execs |-> execs,
                 invoked |-> invoked, ids |-> {}]
  IN /\ drainPc = "write"
     /\ capped => Capped(rows2, p.ids)
     /\ jobs' = p.jobs
     /\ running' = p.running
     /\ execs' = p.execs
     /\ invoked' = p.invoked
     /\ drainJobs' = Tail(drainJobs)
     /\ drainPc' = IF last THEN "sleep" ELSE "write"
     /\ UNCHANGED now
     /\ UNCHANGED auxVars

DrainWrite ==
  /\ drainPc = "write"
  /\ DrainWriteOn(TRUE, TRUE)

\* ... and after the sleep goes round the loop again.
DrainWake ==
  /\ drainPc = "sleep"
  /\ drainPc' = "fetch"
  /\ UNCHANGED <<now, jobs, running, execs, invoked, drainJobs>>
  /\ UNCHANGED auxVars

Next ==
  \/ Insert
  \/ Tick
  \/ \E d \in Disps : Poll(d)
  \/ \E e \in execs : Finish(e)
  \/ \E d \in Disps : Stage(d)
  \/ Rescue
  \/ Cancel
  \/ DrainBegin
  \/ DrainFetch
  \/ DrainWrite
  \/ DrainWake

Spec == Init /\ [][Next]_vars


\* ------------------------------------------------------ lifecycle claims

\* C2: at every moment a job row is being executed by at most one handler
\* invocation, over all dispatchers and processes.
C2_OneExecutionPerJob ==
  \A e1 \in execs : \A e2 \in execs : e1.job.id = e2.job.id => e1 = e2

\* C3: every change of a row's state, by whatever operation, is a transition
\* that isValidTransition accepts.
C3_OnlyValidTransitions ==
  [][\A i \in DOMAIN jobs :
       jobs'[i].state # jobs[i].state
         => isValidTransition(jobs[i].state, jobs'[i].state)]_vars

TerminalStamps(row) ==
  Cardinality({f \in {"completedAt", "discardedAt", "cancelledAt"} :
                 row[f] # NULL})

\* C4: a terminal row has exactly one of completed_at, discarded_at,
\* cancelled_at set, and a non-terminal row has none.
C4_TerminalTimestamps ==
  \A i \in DOMAIN jobs :
    IF isTerminal(jobs[i].state)
    THEN TerminalStamps(jobs[i]) = 1
    ELSE TerminalStamps(jobs[i]) = 0

\* C7: an execution that ends in an error writes discarded (with
\* discarded_at) when attempt >= max_attempts and retryable (with
\* scheduled_at = now + backoff) otherwise, adding one error record; hence
\* the handler of an always-failing job is invoked at most max_attempts times.
C7_ErrorWrite ==
  \A e \in execs : \A r \in JitterSet :
    LET u == handleError(e.job, now, r)
    IN /\ u.errors = Append(e.job.errors, e.job.attempt)
       /\ IF e.job.attempt >= e.job.maxAttempts
          THEN u.state = "discarded" /\ u.discardedAt = now
          ELSE /\ u.state = "retryable"
               /\ u.scheduledAt = now + (getBackoffDelay(e.job, r) \div 1000)

C7_DiscardAtMaxAttempts ==
  /\ C7_ErrorWrite
  /\ \A i \in DOMAIN jobs :
       jobs[i].worker = "AlwaysFail" => invoked[i] <= jobs[i].maxAttempts

\* C8: 0 <= attempt <= max_attempts for every row in every reachable state.
C8_AttemptWithinMax ==
  \A i \in DOMAIN jobs :
    0 <= jobs[i].attempt /\ jobs[i].attempt <= jobs[i].maxAttempts


\* ------------------------------------------------------------ retry scenario
\* One job of worker "FailTwice" with max_attempts = 5, two running
\* dispatchers and the stager.  The clock can always reach a scheduled_at
\* that lies ahead, so no retry waits for a time the model never reaches.
RetryMaxAttempts == 5

RetryInsert ==
  /\ Len(jobs) < MaxJobs
  /\ \E o \in InsertOptions :
       /\ o.maxAttempts = 1
       /\ jobs' = insertJob(jobs,
                    createJob("FailTwice",
                              [o EXCEPT !.maxAttempts = RetryMaxAttempts], now),
                    now)
       /\ invoked' = Append(invoked, 0)
  /\ UNCHANGED <<now, running, execs, drainPc, drainJobs>>
  /\ UNCHANGED auxVars

RetryTick ==
  /\ now < MaxTime \/ \E i \in DOMAIN jobs : jobs[i].scheduledAt > now
  /\ now' = now + 1
  /\ UNCHANGED <<jobs, running, execs, invoked, drainPc, drainJobs>>
  /\ UNCHANGED auxVars

RetryNext ==
  \/ RetryInsert
  \/ RetryTick
  \/ \E d \in Disps : Poll(d)
  \/ \E e \in execs : Finish(e)
  \/ \E d \in Disps : Stage(d)

RetrySpec ==
  /\ Init
  /\ [][RetryNext]_vars
  /\ WF_vars(RetryInsert)
  /\ WF_vars(RetryTick)
  /\ \A d \in Disps : WF_vars(Poll(d)) /\ WF_vars(Stage(d))
  /\ WF_vars(\E e \in execs : Finish(e))

RetryDue(i) ==
  /\ i \in DOMAIN jobs
  /\ jobs[i].state = "retryable"
  /\ jobs[i].attempt < jobs[i].maxAttempts
  /\ jobs[i].scheduledAt <= now

RetryDone(i) ==
  /\ i \in DOMAIN jobs
  /\ jobs[i].state = "completed"
  /\ jobs[i].attempt = 3
  /\ Len(jobs[i].errors) = 2

\* C6: a job that failed with attempts left becomes available again once its
\* backoff has elapsed, and is executed again; the job of the retry scenario
\* ends completed with attempt = 3 and two error records.
C6_RetriedUntilCompleted ==
  \A i \in 1..MaxJobs :
    /\ RetryDue(i) ~> (i \in DOMAIN jobs /\ jobs[i].state = "available")
    /\ <>RetryDone(i)


\* ------------------------------------------- dispatcher over an async fetch
\* Queue.poll over the PostgreSQL adapter: fetchJobs is awaited, so between
\* the moment poll computed `available` and the moment the rows reach it,
\* timers fire and notifications arrive.  An insert on a started instance
\* is followed by notify(queue), which every listening instance answers with
\* dispatch().
PollJobs == 2

PollOptions ==
  [queue |-> "default", args |-> "a", maxAttempts |-> 2, priority |-> 0,
   scheduledAt |-> NULL]

PollInsert ==
  /\ Len(jobs) < PollJobs
  /\ jobs' = insertJob(jobs, createJob("Worker", PollOptions, now), now)
  /\ invoked' = Append(invoked, 0)
  /\ wakes' = [d \in Disps |-> wakes[d] + 1]
  /\ UNCHANGED <<now, adapter, running, execs, drainPc, drainJobs>>
  /\ UNCHANGED <<timers, inflight, fetchVars, lastInsert, lastCall, dispatcher, coreVars>>

\* The body of Queue.poll up to its await; tm is timers after the trigger.
AsyncPoll(d, tm) ==
  LET available == limit(d) - Cardinality(running[d])
      ids == fetchJobs(jobs, QueueName(d), available)
      rows2 == UpdateFetched(jobs, Range(ids), now)
  IN IF available <= 0
     THEN /\ timers' = [tm EXCEPT ![d] = @ + 1]
          /\ UNCHANGED <<jobs, inflight>>
     ELSE /\ timers' = tm
          /\ jobs' = rows2
          /\ inflight' = [inflight EXCEPT
                            ![d] = Append(@, [k \in DOMAIN ids |->
                                                WithId(rows2, ids[k])])]

\* setTimeout(() => this.poll(), interval) fires.
TimerPoll(d) ==
  /\ timers[d] > 0
  /\ AsyncPoll(d, [timers EXCEPT ![d] = @ - 1])
  /\ UNCHANGED <<now, adapter, running, execs, invoked, drainPc, drainJobs>>
  /\ UNCHANGED <<wakes, fetchVars, lastInsert, lastCall, dispatcher, coreVars>>

\* A notification reaches the listener of d's instance: queue.dispatch().
WakePoll(d) ==
  /\ wakes[d] > 0
  /\ wakes' = [wakes EXCEPT ![d] = @ - 1]
  /\ AsyncPoll(d, timers)
  /\ UNCHANGED <<now, adapter, running, execs, invoked, drainPc, drainJobs>>
  /\ UNCHANGED <<fetchVars, lastInsert, lastCall, dispatcher, coreVars>>

\* An awaited fetchJobs resolves: poll starts an execution for each row, in
\* the order of the array, and schedules the next poll.
PollReturn(d) ==
  \E k \in DOMAIN inflight[d] :
    LET rows == inflight[d][k]
        ids == {rows[j].id : j \in DOMAIN rows}
    IN /\ inflight' = [inflight EXCEPT
                         ![d] = SubSeq(@, 1, k - 1) \o SubSeq(@, k + 1, Len(@))]
       /\ running' = [running EXCEPT ![d] = @ \cup ids]
       /\ execs' = execs \cup {[disp |-> d, job |-> rows[j]] : j \in DOMAIN rows}
       /\ invoked' = [i \in DOMAIN invoked |->
                        IF i \in ids /\ hasWorker(jobs[i].worker)
                        THEN invoked[i] + 1 ELSE invoked[i]]
       /\ timers' = [timers EXCEPT ![d] = @ + 1]
       /\ UNCHANGED <<now, adapter, jobs, drainPc, drainJobs>>
       /\ UNCHANGED <<wakes, fetchVars, lastInsert, lastCall, dispatcher, coreVars>>

PollNext ==
  \/ PollInsert
  \/ \E d \in Disps : TimerPoll(d)
  \/ \E d \in Disps : WakePoll(d)
  \/ \E d \in Disps : PollReturn(d)
  \/ \E e \in execs : Finish(e)

PollInit == Started("postgres")

PollSpec == PollInit /\ [][PollNext]_vars

Executing(d) == {e \in execs : e.disp = d}

\* C5: a dispatcher never has more than `limit` handler executions in
\* progress, whatever the interleaving of timer polls, dispatch() wakes and
\* fetchJobs completions.
C5_AtMostLimitExecuting ==
  \A d \in Disps : Cardinality(Executing(d)) <= limit(d)

\* ------------------------------------------------------ concurrent fetches
\* fetchJobs as the database runs it, for two callers in different processes.
\*   postgres: one statement; its sub-select walks the available rows of its
\*     snapshot in order, skips a row another transaction has locked, and
\*     re-checks a row against its latest committed version before locking
\*     it; the update and the commit end the statement.  RETURNING gives the
\*     rows in no stated order.
\*   mysql: the same walk by SELECT ... FOR UPDATE SKIP LOCKED inside a
\*     transaction, then UPDATE and COMMIT, then a SELECT ... WHERE id IN (..)
\*     without ORDER BY after the commit.
\*   sqlite: a deferred transaction: SELECT (a read snapshot), then the
\*     UPDATE, which fails with SQLITE_BUSY when another connection wrote
\*     since the snapshot, then an ordered SELECT and the commit.
MaxFetchJobs == 2

FetchLimits == {1, 2}

FetchPriorities == {0, 1}

\* All the orders in which the rows of a set can be given.
Orders(S) ==
  {f \in [1..Cardinality(S) -> S] : \A a, b \in DOMAIN f : a # b => f[a] # f[b]}

\* A committed write of another connection ends the snapshot of every open
\* SQLite transaction.
Outdated(cs, c) ==
  [o \in DOMAIN cs |->
     IF o # c /\ adapter = "sqlite" /\ cs[o].pc = "write"
     THEN [cs[o] EXCEPT !.stale = TRUE] ELSE cs[o]]

FetchInsert ==
  /\ Len(jobs) < MaxFetchJobs
  /\ \E pr \in FetchPriorities :
       jobs' = insertJob(jobs,
                 createJob("Worker", [PollOptions EXCEPT !.priority = pr], now),
                 now)
  /\ invoked' = Append(invoked, 0)
  /\ calls' = [o \in DOMAIN calls |->
                 IF adapter = "sqlite" /\ calls[o].pc = "write"
                 THEN [calls[o] EXCEPT !.stale = TRUE] ELSE calls[o]]
  /\ UNCHANGED <<now, adapter, running, execs, drainPc, drainJobs>>
  /\ UNCHANGED <<pollVars, returned, lastInsert, lastCall, dispatcher, coreVars>>

AvailableIds(rows, queue) ==
  {i \in DOMAIN rows : rows[i].queue = queue /\ rows[i].state = "available"}

\* Caller c issues fetchJobs(queue, n).
FetchBegin(c) ==
  /\ calls[c].pc = "idle"
  /\ \E n \in FetchLimits :
       IF adapter = "sqlite"
       THEN LET cand == SelectAvailable(jobs, QueueName(c), n)
            IN calls' = [calls EXCEPT
                 ![c] = IF cand = <<>> THEN IdleCall
                        ELSE [IdleCall EXCEPT !.pc = "write", !.limit = n,
                                              !.cand = cand]]
       ELSE calls' = [calls EXCEPT
              ![c] = [IdleCall EXCEPT
                        !.pc = "scan", !.limit = n,
                        !.cand = OrderBy(jobs, AvailableIds(jobs, QueueName(c)))]]
  /\ UNCHANGED <<now, adapter, jobs, running, execs, invoked, drainPc, drainJobs>>
  /\ UNCHANGED <<pollVars, returned, lastInsert, lastCall, dispatcher, coreVars>>

LockedByOther(c, i) ==
  \E o \in DOMAIN calls \ {c} :
    calls[o].pc = "scan" /\ i \in Range(calls[o].held)

\* A sub-select without FOR UPDATE SKIP LOCKED: every candidate is taken.
ClaimableUnlocked(c, i) == TRUE

\* FOR UPDATE SKIP LOCKED on row i: the row is taken when no other
\* transaction holds its lock and its latest committed version still matches
\* the WHERE clause.
Claimable(c, i) ==
  /\ ~LockedByOther(c, i)
  /\ jobs[i].state = "available"

FetchLock(c) ==
  /\ calls[c].pc = "scan"
  /\ calls[c].cand # <<>>
  /\ Len(calls[c].held) < calls[c].limit
  /\ LET i == Head(calls[c].cand)
     IN calls' = [calls EXCEPT
          ![c].cand = Tail(@),
          ![c].held = IF Claimable(c, i) THEN Append(@, i) ELSE @]
  /\ UNCHANGED <<now, adapter, jobs, running, execs, invoked, drainPc, drainJobs>>
  /\ UNCHANGED <<pollVars, returned, lastInsert, lastCall, dispatcher, coreVars>>

\* The locked rows are updated and the transaction commits.
FetchCommit(c) ==
  /\ calls[c].pc = "scan"
  /\ calls[c].cand = <<>> \/ Len(calls[c].held) = calls[c].limit
  /\ jobs' = UpdateFetched(jobs, Range(calls[c].held), now)
  /\ IF calls[c].held = <<>>
     THEN calls' = [calls EXCEPT ![c] = IdleCall] /\ UNCHANGED returned
     ELSE IF adapter = "mysql"
     THEN /\ calls' = [calls EXCEPT
                 ![c] = [IdleCall EXCEPT !.pc = "reread", !.ids = calls[c].held]]
          /\ UNCHANGED returned
     ELSE /\ calls' = [calls EXCEPT ![c] = IdleCall]
          /\ \E f \in Orders(Range(calls[c].held)) :
               returned' = Append(returned, [caller |-> c, ids |-> f])
  /\ UNCHANGED <<now, adapter, running, execs, invoked, drainPc, drainJobs>>
  /\ UNCHANGED <<pollVars, lastInsert, lastCall, dispatcher, coreVars>>

\* mysql: SELECT * FROM izi_jobs WHERE id IN (ids), after the commit.
FetchReread(c) ==
  /\ calls[c].pc = "reread"
  /\ \E f \in Orders(Range(calls[c].ids)) :
       returned' = Append(returned, [caller |-> c, ids |-> f])
  /\ calls' = [calls EXCEPT ![c] = IdleCall]
  /\ UNCHANGED <<now, adapter, jobs, running, execs, invoked, drainPc, drainJobs>>
  /\ UNCHANGED <<pollVars, lastInsert, lastCall, dispatcher, coreVars>>

\* sqlite: the UPDATE, the ordered SELECT and the commit of the transaction;
\* with an outdated snapshot the UPDATE throws and nothing is returned.
FetchWrite(c) ==
  /\ calls[c].pc = "write"
  /\ IF calls[c].stale
     THEN /\ calls' = [calls EXCEPT ![c] = IdleCall]
          /\ UNCHANGED <<jobs, returned>>
     ELSE /\ jobs' = UpdateFetched(jobs, Range(calls[c].cand), now)
          /\ returned' = Append(returned,
                           [caller |-> c,
                            ids |-> OrderBy(jobs, Range(calls[c].cand))])
          /\ calls' = [Outdated(calls, c) EXCEPT ![c] = IdleCall]
  /\ UNCHANGED <<now, adapter, running, execs, invoked, drainPc, drainJobs>>
  /\ UNCHANGED <<pollVars, lastInsert, lastCall, dispatcher, coreVars>>

FetchNext ==
  \/ FetchInsert
  \/ \E c \in Disps : FetchBegin(c)
  \/ \E c \in Disps : FetchLock(c)
  \/ \E c \in Disps : FetchCommit(c)
  \/ \E c \in Disps : FetchReread(c)
  \/ \E c \in Disps : FetchWrite(c)

FetchInit == \E a \in Adapters : Started(a)

FetchSpec == FetchInit /\ [][FetchNext]_vars

\* C1: the id sets that distinct fetchJobs calls return are pairwise
\* disjoint, for every adapter and every interleaving of the calls.
C1_DisjointClaims ==
  \A k1 \in DOMAIN returned : \A k2 \in DOMAIN returned :
    k1 # k2 => Range(returned[k1].ids) \cap Range(returned[k2].ids) = {}

\* Two calls ran concurrently over the same row: one has returned it while
\* the other, begun before that, still has it among its candidates.
C1_Contended ==
  \E c \in Disps : \E k \in DOMAIN returned :
    /\ calls[c].pc \in {"scan", "write"}
    /\ returned[k].caller # c
    /\ Range(calls[c].cand) \cap Range(returned[k].ids) # {}

\* C10: every fetchJobs call returns its rows in (priority, scheduled_at, id)
\* order, which is the order in which Queue.poll starts their handlers: a
\* lower priority number is started before a higher one of the same fetch.
C10_ReturnedInOrder ==
  \A k \in DOMAIN returned :
    \A a \in DOMAIN returned[k].ids : \A b \in DOMAIN returned[k].ids :
      a < b => Before(jobs, returned[k].ids[a], returned[k].ids[b])


\* ------------------------------------------------------------ unique inserts
\* insertWithResult with a unique option, over the SQLite and the PostgreSQL
\* adapter.  `args` is the JSON object as its text: the key/value pairs in
\* the order JSON.stringify writes them.  A JSON value is [t, v]: its type and
\* its text.
MaxUniqueJobs == 2

UniqueMaxTime == 2

UniqueAdapters == {"sqlite", "postgres"}

JNull == [t |-> "null", v |-> ""]

JNum(x) == [t |-> "num", v |-> x]

JStr(x) == [t |-> "str", v |-> x]

UniqueArgs ==
  {<< <<"a", JNum("1")>> >>,
   << <<"a", JStr("1")>> >>,
   << <<"a", JNum("1")>>, <<"b", JNum("2")>> >>,
   << <<"b", JNum("2")>>, <<"a", JNum("1")>> >>}

ArgKeys == {"a", "b"}

\* args[key] in JavaScript, json_extract(args, '$.key') in SQLite: the value
\* of the key, null when the object has no such key.
JsonExtract(args, key) ==
  IF \E k \in DOMAIN args : args[k][1] = key
  THEN args[CHOOSE k \in DOMAIN args : args[k][1] = key][2]
  ELSE JNull

\* SQL `x = y`: not true when either side is NULL.
SqlEq(x, y) == x.t # "null" /\ y.t # "null" /\ x = y

\* args->>'key' in PostgreSQL and String(value) in JavaScript: the value as
\* text.
AsText(x) == IF x.t = "null" THEN JNull ELSE JStr(x.v)

\* jsonb equality: the same value under every key, whatever the key order.
JsonbEq(a1, a2) == \A key \in ArgKeys : JsonExtract(a1, key) = JsonExtract(a2, key)

DefaultFields == {"worker", "queue", "args"}

DefaultStates == {"available", "scheduled", "executing", "retryable"}

DefaultPeriod == 60

Infinity == 999999999

\* UniqueOptions with the defaults of checkUnique filled in; period
\* 'infinity' is 999999999 as in the code.
UniqueOptions ==
  [fields : {DefaultFields, {"worker"}, {"args"}},
   keys : {<<>>, <<"a">>, <<"b">>},
   period : {DefaultPeriod, 1, Infinity},
   states : {DefaultStates, {"scheduled"}}]

ArgsClause(options, row, job) ==
  IF "args" \notin options.fields THEN TRUE
  ELSE IF Len(options.keys) > 0
  THEN \A k \in DOMAIN options.keys :
         IF adapter = "sqlite"
         THEN SqlEq(JsonExtract(row.args, options.keys[k]),
                    JsonExtract(job.args, options.keys[k]))
         ELSE SqlEq(AsText(JsonExtract(row.args, options.keys[k])),
                    JStr(JsonExtract(job.args, options.keys[k]).v))
  ELSE IF adapter = "sqlite" THEN row.args = job.args
  ELSE JsonbEq(row.args, job.args)

\* The rows the SELECT of checkUnique matches at time t; LIMIT 1 gives one.
checkUnique(rows, options, job, t) ==
  {i \in DOMAIN rows :
     /\ rows[i].state \in options.states
     /\ (options.period # Infinity => rows[i].insertedAt > t - options.period)
     /\ ("worker" \in options.fields => rows[i].worker = job.worker)
     /\ ("queue" \in options.fields => rows[i].queue = job.queue)
     /\ ArgsClause(options, rows[i], job)}

\* The unique criteria as the claim states them: equal args, or the selected
\* keys equal with two missing values equal.
UniqueMatch(rows, options, job, t) ==
  {i \in DOMAIN rows :
     /\ rows[i].state \in options.states
     /\ (options.period # Infinity => rows[i].insertedAt > t - options.period)
     /\ ("worker" \in options.fields => rows[i].worker = job.worker)
     /\ ("queue" \in options.fields => rows[i].queue = job.queue)
     /\ "args" \in options.fields =>
          IF Len(options.keys) > 0
          THEN \A k \in DOMAIN options.keys :
                 JsonExtract(rows[i].args, options.keys[k])
                   = JsonExtract(job.args, options.keys[k])
          ELSE JsonbEq(rows[i].args, job.args)}

UniqueInsertOptions ==
  [queue : {"default"}, args : UniqueArgs, maxAttempts : {2}, priority : {0},
   scheduledAt : {NULL, UniqueMaxTime}]

\* IziQueue.insertWithResult(worker, {..., unique: options})
UniqueInsert ==
  /\ Len(jobs) < MaxUniqueJobs
  /\ \E w \in {"Worker", "AlwaysFail"}, o \in UniqueInsertOptions,
        options \in UniqueOptions :
       LET jobData == createJob(w, o, now)
           found == checkUnique(jobs, options, jobData, now)
           existed == UniqueMatch(jobs, options, jobData, now) # {}
       IN IF found # {}
          THEN /\ \E i \in found :
                    lastInsert' = [called |-> TRUE, existed |-> existed,
                                   conflict |-> TRUE, emitted |-> TRUE,
                                   id |-> i, added |-> 0]
               /\ UNCHANGED <<jobs, invoked, wakes>>
          ELSE /\ jobs' = insertJob(jobs, jobData, now)
               /\ invoked' = Append(invoked, 0)
               /\ wakes' = IF adapter = "postgres"
                           THEN [d \in Disps |-> wakes[d] + 1] ELSE wakes
               /\ lastInsert' = [called |-> TRUE, existed |-> existed,
                                 conflict |-> FALSE, emitted |-> FALSE,
                                 id |-> Len(jobs) + 1, added |-> 1]
  /\ UNCHANGED <<now, adapter, running, execs, drainPc, drainJobs>>
  /\ UNCHANGED <<timers, inflight, fetchVars, lastCall, dispatcher, coreVars>>

UniqueTick ==
  /\ now < UniqueMaxTime
  /\ now' = now + 1
  /\ UNCHANGED <<jobs, running, execs, invoked, drainPc, drainJobs, auxVars>>

\* The stage timer of an instance.
UniqueStage ==
  /\ jobs' = stageJobs(jobs, now)
  /\ jobs' # jobs
  /\ UNCHANGED <<now, running, execs, invoked, drainPc, drainJobs, auxVars>>

UniqueNext ==
  \/ UniqueInsert
  \/ UniqueTick
  \/ UniqueStage

UniqueInit == \E a \in UniqueAdapters : Started(a)

UniqueSpec == UniqueInit /\ [][UniqueNext]_vars

\* C9: a unique insert finds a conflict exactly when a job matching the
\* unique criteria exists: then no row is added, job:unique_conflict is
\* emitted and the existing job is returned with conflict = true; otherwise
\* one row is added and conflict = false.
C9_ConflictIffMatch ==
  lastInsert.called =>
    IF lastInsert.existed
    THEN lastInsert.conflict /\ lastInsert.emitted /\ lastInsert.added = 0
    ELSE ~lastInsert.conflict /\ ~lastInsert.emitted /\ lastInsert.added = 1


\* ------------------------------------------------- adapter calls on a table
\* The adapter's methods called directly, as the adapter tests do, on a table
\* with two queues.  insertJob stores the state and the scheduled_at it is
\* given.
MaxAdapterJobs == 2

AdapterMaxTime == 1

AdapterQueues == {"default", "mail"}

AdapterWorkers == {"Worker", "AlwaysFail"}

AdapterCriteria ==
  [queue : {"", "mail"}, worker : {"", "Worker"},
   state : {{}, {"scheduled", "executing"}, {"cancelled"}}]

RescueAfters == {0, 1}

\* result.changes / rowCount / affectedRows of an UPDATE that alters every
\* row it matches
Changes(rows, rows2) == Cardinality({i \in DOMAIN rows : rows2[i] # rows[i]})

AdapterInsert ==
  /\ Len(jobs) < MaxAdapterJobs
  /\ \E st \in {"available", "scheduled", "completed"}, q \in AdapterQueues,
        w \in AdapterWorkers, at \in {now, now + 1} :
       jobs' = insertJob(jobs,
                 [createJob(w, [PollOptions EXCEPT !.queue = q,
                                                   !.scheduledAt = at], now)
                    EXCEPT !.state = st],
                 now)
  /\ invoked' = Append(invoked, 0)
  /\ lastCall' = [op |-> "insert", n |-> 1]
  /\ UNCHANGED <<now, adapter, running, execs, drainPc, drainJobs>>
  /\ UNCHANGED <<pollVars, fetchVars, lastInsert, dispatcher, coreVars>>

AdapterTick ==
  /\ now < AdapterMaxTime
  /\ now' = now + 1
  /\ UNCHANGED <<jobs, running, execs, invoked, drainPc, drainJobs, auxVars>>

AdapterFetch ==
  /\ \E q \in AdapterQueues, n \in FetchLimits :
       LET ids == fetchJobs(jobs, q, n)
       IN /\ Capped(jobs, Range(ids))
          /\ jobs' = UpdateFetched(jobs, Range(ids), now)
          /\ lastCall' = [op |-> "fetch", n |-> Len(ids)]
  /\ UNCHANGED <<now, adapter, running, execs, invoked, drainPc, drainJobs>>
  /\ UNCHANGED <<pollVars, fetchVars, lastInsert, dispatcher, coreVars>>

AdapterStage ==
  /\ jobs' = stageJobs(jobs, now)
  /\ lastCall' = [op |-> "stage", n |-> Changes(jobs, jobs')]
  /\ UNCHANGED <<now, adapter, running, execs, invoked, drainPc, drainJobs>>
  /\ UNCHANGED <<pollVars, fetchVars, lastInsert, dispatcher, coreVars>>

AdapterCancel ==
  /\ \E c \in AdapterCriteria : jobs' = cancelJobs(jobs, c, now)
  /\ lastCall' = [op |-> "cancel", n |-> Changes(jobs, jobs')]
  /\ UNCHANGED <<now, adapter, running, execs, invoked, drainPc, drainJobs>>
  /\ UNCHANGED <<pollVars, fetchVars, lastInsert, dispatcher, coreVars>>

AdapterRescue ==
  /\ \E after \in RescueAfters : jobs' = rescueStuckJobs(jobs, after, now)
  /\ lastCall' = [op |-> "rescue", n |-> Changes(jobs, jobs')]
  /\ UNCHANGED <<now, adapter, running, execs, invoked, drainPc, drainJobs>>
  /\ UNCHANGED <<pollVars, fetchVars, lastInsert, dispatcher, coreVars>>

AdapterNext ==
  \/ AdapterInsert
  \/ AdapterTick
  \/ AdapterFetch
  \/ AdapterStage
  \/ AdapterCancel
  \/ AdapterRescue

AdapterInit == Started("sqlite")

AdapterSpec == AdapterInit /\ [][AdapterNext]_vars

\* C11: fetchJobs(q, n) returns at most n rows, each of queue q and available
\* before the call; after it each returned row is executing with
\* attempted_at = now and attempt one higher, and no other row has changed.
C11_FetchPostcondition ==
  \A q \in AdapterQueues : \A n \in FetchLimits :
    LET ids == fetchJobs(jobs, q, n)
        after == UpdateFetched(jobs, Range(ids), now)
    IN /\ Len(ids) <= n
       /\ Cardinality(Range(ids)) = Len(ids)
       /\ \A i \in DOMAIN jobs :
            IF i \in Range(ids)
            THEN /\ jobs[i].queue = q
                 /\ jobs[i].state = "available"
                 /\ after[i] = [jobs[i] EXCEPT !.state = "executing",
                                               !.attemptedAt = now,
                                               !.attempt = jobs[i].attempt + 1]
            ELSE after[i] = jobs[i]

\* A fetch with limit 1 has just claimed one row and left another available
\* row of the same queue alone.
C11_FetchedOneOfTwo ==
  /\ lastCall = [op |-> "fetch", n |-> 1]
  /\ \E i \in DOMAIN jobs : \E j \in DOMAIN jobs :
       /\ jobs[i].state = "executing" /\ jobs[i].attemptedAt = now
       /\ jobs[i].attempt = 1
       /\ jobs[j].state = "available" /\ jobs[j].queue = jobs[i].queue
       /\ jobs[j].attempt = 0

\* C12: fetchJobs never returns a row whose scheduled_at lies in the future.
C12_FetchOnlyDue ==
  \A q \in AdapterQueues : \A n \in FetchLimits :
    \A i \in Range(fetchJobs(jobs, q, n)) : jobs[i].scheduledAt <= now

\* The rows a cancel with the given criteria is about: non-terminal and
\* matching every criterion that was given.
CancelTargets(rows, c) ==
  {i \in DOMAIN rows :
     /\ ~isTerminal(rows[i].state)
     /\ (c.queue # "" => rows[i].queue = c.queue)
     /\ (c.worker # "" => rows[i].worker = c.worker)
     /\ (c.state # {} => rows[i].state \in c.state)}

\* C18: cancelJobs(criteria) sets state cancelled and cancelled_at = now on
\* exactly the non-terminal rows that match every given criterion, returns
\* their number and leaves every other row unchanged; a terminal row is never
\* modified and empty criteria cancel every non-terminal row.
C18_CancelExactlyMatching ==
  \A c \in AdapterCriteria :
    LET after == cancelJobs(jobs, c, now)
        T == CancelTargets(jobs, c)
    IN /\ Changes(jobs, after) = Cardinality(T)
       /\ \A i \in DOMAIN jobs :
            /\ i \in T =>
                 after[i] = [jobs[i] EXCEPT !.state = "cancelled",
                                            !.cancelledAt = now]
            /\ i \notin T => after[i] = jobs[i]
            /\ isTerminal(jobs[i].state) => after[i] = jobs[i]
       /\ (c.queue = "" /\ c.worker = "" /\ c.state = {}) =>
            T = {i \in DOMAIN jobs : ~isTerminal(jobs[i].state)}

\* A cancel changed one row of two: the other one was already cancelled at an
\* earlier time and kept its cancelled_at.
C18_CancelledOneOfTwo ==
  /\ lastCall = [op |-> "cancel", n |-> 1]
  /\ \E i, j \in DOMAIN jobs :
       /\ jobs[i].state = "cancelled" /\ jobs[i].cancelledAt = now
       /\ jobs[j].state = "cancelled" /\ jobs[j].cancelledAt < now

\* The rows a rescue is about: executing, attempted before now - after.
RescueTargets(rows, after, t) ==
  {i \in DOMAIN rows :
     /\ rows[i].state = "executing"
     /\ rows[i].attemptedAt # NULL
     /\ rows[i].attemptedAt < t - after}

\* C20: rescueStuckJobs(after) changes exactly the executing rows whose
\* attempted_at is older than now - after: they become available with
\* scheduled_at = now, their number is returned, their attempt and errors are
\* unchanged; every other row is untouched.
C20_RescueExactlyStuck ==
  \A after \in RescueAfters :
    LET res == rescueStuckJobs(jobs, after, now)
        T == RescueTargets(jobs, after, now)
    IN /\ Changes(jobs, res) = Cardinality(T)
       /\ \A i \in DOMAIN jobs :
            /\ i \in T =>
                 /\ res[i] = [jobs[i] EXCEPT !.state = "available",
                                              !.scheduledAt = now]
                 /\ res[i].attempt = jobs[i].attempt
                 /\ res[i].errors = jobs[i].errors
            /\ i \notin T => res[i] = jobs[i]

\* A rescue took the older of two executing rows and left the one attempted
\* just now.
C20_RescuedOlderOfTwo ==
  /\ lastCall = [op |-> "rescue", n |-> 1]
  /\ \E i, j \in DOMAIN jobs :
       /\ jobs[i].state = "available" /\ jobs[i].attempt = 1
       /\ jobs[i].scheduledAt = now /\ jobs[i].attemptedAt < now
       /\ jobs[j].state = "executing" /\ jobs[j].attemptedAt = now

\* --------------------------------------------------- scheduled and snoozed
\* The snooze scenario: one orchestrator per dispatcher, running; jobs of the
\* worker that snoozes once are inserted due or with a future scheduledAt,
\* with and without meta of their own.
ScheduleMetas ==
  {NoMeta, [tag |-> 7, snoozedAt |-> NULL], [tag |-> 7, snoozedAt |-> 0]}

ScheduleOptions ==
  [queue : {"default"}, args : {"a"}, maxAttempts : {2}, priority : {0},
   scheduledAt : {NULL, 1, 2}, meta : ScheduleMetas]

ScheduleInsert ==
  /\ Len(jobs) < MaxJobs
  /\ \E o \in ScheduleOptions :
       jobs' = insertJob(jobs, createJob("SnoozeOnce", o, now), now)
  /\ invoked' = Append(invoked, 0)
  /\ UNCHANGED <<now, running, execs, drainPc, drainJobs>>
  /\ UNCHANGED auxVars

ScheduleNext ==
  \/ ScheduleInsert
  \/ RetryTick
  \/ \E d \in Disps : Poll(d)
  \/ \E e \in execs : Finish(e)
  \/ \E d \in Disps : Stage(d)

ScheduleSpec ==
  /\ Init
  /\ [][ScheduleNext]_vars
  /\ WF_vars(RetryTick)
  /\ \A d \in Disps : WF_vars(Poll(d)) /\ WF_vars(Stage(d))
  /\ WF_vars(\E e \in execs : Finish(e))

\* An execution of job i ends in this step and leaves the row scheduled: the
\* write of handleSnooze.
SnoozeWritten(i) ==
  /\ \E e \in execs : e.job.id = i /\ e \notin execs'
  /\ jobs'[i].state = "scheduled"

\* C17: the write of a snooze sets state scheduled, scheduled_at = now + s
\* and meta.snoozedAt, keeps every other meta key, leaves errors as they
\* were and sets no terminal timestamp.
C17_SnoozeWrite ==
  [][\A i \in DOMAIN jobs :
       SnoozeWritten(i) =>
         /\ jobs'[i].scheduledAt = now + SnoozeSeconds
         /\ jobs'[i].meta.snoozedAt = now
         /\ jobs'[i].meta.tag = jobs[i].meta.tag
         /\ jobs'[i].errors = jobs[i].errors
         /\ jobs'[i].completedAt = jobs[i].completedAt
         /\ jobs'[i].discardedAt = jobs[i].discardedAt
         /\ jobs'[i].cancelledAt = jobs[i].cancelledAt]_vars

\* A job that carried meta of its own has just been snoozed.
C17_SnoozedWithTag ==
  \E i \in DOMAIN jobs :
    /\ jobs[i].state = "scheduled" /\ jobs[i].attempt = 1
    /\ jobs[i].scheduledAt = now + SnoozeSeconds
    /\ jobs[i].meta = [tag |-> 7, snoozedAt |-> now]
    /\ now > 0

\* stageJobs changes exactly the scheduled rows that are due.
StageExact ==
  \A i \in DOMAIN jobs :
    stageJobs(jobs, now)[i] =
      IF jobs[i].state = "scheduled" /\ jobs[i].scheduledAt <= now
      THEN [jobs[i] EXCEPT !.state = "available"]
      ELSE jobs[i]

\* A step that takes row i out of scheduled took it while it was due, and the
\* dispatcher that was woken has claimed it.
StagedAndWoken(i) ==
  (jobs[i].state = "scheduled" /\ jobs'[i].state # "scheduled") =>
     /\ jobs[i].scheduledAt <= now
     /\ jobs'[i].state = "executing"
     /\ \E d \in Disps : i \in running'[d]

\* A step that invokes the handler of row i invokes it at or after the row's
\* scheduled_at.
StartedWhenDue(i) ==
  (invoked'[i] > invoked[i]) => jobs[i].scheduledAt <= now

\* With insert, stage, poll and execution alone: stageJobs moves exactly the
\* due scheduled rows, the woken dispatcher claims them, no handler starts
\* before scheduled_at, and a scheduled job is eventually executed.
ScheduledRunsWhenDue ==
  /\ []StageExact
  /\ [][\A i \in DOMAIN jobs : StagedAndWoken(i) /\ StartedWhenDue(i)]_vars
  /\ \A i \in 1..MaxJobs :
       (i \in DOMAIN jobs /\ jobs[i].state = "scheduled")
         ~> (i \in DOMAIN jobs /\ jobs[i].state = "executing"
               /\ jobs[i].scheduledAt <= now)

\* C19: stageJobs moves exactly the due scheduled rows to available, so a job
\* scheduled for later, by its insert or by a snooze, is never executed
\* before its scheduled_at: every handler invocation starts at or after the
\* scheduled_at the row has at that moment.
C19_NeverBeforeScheduledAt ==
  [][\A i \in DOMAIN jobs : StartedWhenDue(i)]_vars

\* ------------------------------------------------- the Queue state machine
\* One Queue object (dispatcher d1) over the asynchronous fetch: start, stop,
\* pause, resume and dispatch are called in any order, timers fire, awaited
\* fetchJobs calls resolve, and an adapter call of the executor may throw.
QueueJobs == 1

MaxOrphans == 2

MaxInflight == 2

MaxFaults == 2

QD == "d1"

QueueWorkers == {"Worker", "Missing"}

QueueOthers == <<now, adapter, invoked, drainPc, drainJobs, timers, wakes,
                 fetchVars, lastInsert, lastCall, coreVars>>

\* Queue.schedulePoll
schedulePoll(q) ==
  IF q.state # "running" THEN q
  ELSE [q EXCEPT !.orphans = IF q.pollTimer THEN @ + 1 ELSE @,
                 !.pollTimer = TRUE]

\* clearTimeout(this.pollTimer)
clearPollTimer(q) == [q EXCEPT !.pollTimer = FALSE]

\* The caller that got stop() back goes on with its next call.
NextCall(q) ==
  [q EXCEPT !.stopPc = IF @ = "returned" THEN "idle" ELSE @]

\* Queue.poll up to its await, on the Queue q the trigger left.
QueuePoll(q) ==
  LET available == limit(QD) - Cardinality(running[QD])
      ids == fetchJobs(jobs, QueueName(QD), available)
      rows2 == UpdateFetched(jobs, Range(ids), now)
  IN IF q.state # "running"
     THEN dispatcher' = q /\ UNCHANGED <<jobs, inflight>>
     ELSE IF available <= 0
     THEN /\ schedulePoll(q).orphans <= MaxOrphans
          /\ dispatcher' = schedulePoll(q)
          /\ UNCHANGED <<jobs, inflight>>
     ELSE /\ Len(inflight[QD]) < MaxInflight
          /\ dispatcher' = q
          /\ jobs' = rows2
          /\ inflight' = [inflight EXCEPT
                            ![QD] = Append(@, [k \in DOMAIN ids |->
                                                 WithId(rows2, ids[k])])]

QueueInsert ==
  /\ Len(jobs) < QueueJobs
  /\ \E w \in QueueWorkers :
       jobs' = insertJob(jobs, createJob(w, PollOptions, now), now)
  /\ invoked' = Append(invoked, 0)
  /\ UNCHANGED <<now, adapter, running, execs, drainPc, drainJobs>>
  /\ UNCHANGED <<pollVars, fetchVars, lastInsert, lastCall, dispatcher, coreVars>>

\* Queue.start
QueueStart ==
  LET q == NextCall(dispatcher)
      after == IF q.paused THEN "paused" ELSE "running"
  IN /\ dispatcher' =
          IF q.state = "running"
          THEN [q EXCEPT !.last = [op |-> "start", before |-> q.state,
                                   after |-> q.state, events |-> <<>>]]
          ELSE schedulePoll(
                 [q EXCEPT !.state = after,
                           !.last = [op |-> "start", before |-> q.state,
                                     after |-> after,
                                     events |-> <<"queue:start">>]])
     /\ dispatcher'.orphans <= MaxOrphans
     /\ UNCHANGED <<jobs, running, execs, inflight, QueueOthers>>

\* Queue.stop up to its await: with nothing in flight it returns at once.
QueueStop ==
  LET q == dispatcher
  IN /\ q.stopPc # "waiting"
     /\ dispatcher' =
          IF q.state = "stopped"
          THEN [q EXCEPT !.stopPc = "returned",
                         !.last = [op |-> "stop", before |-> q.state,
                                   after |-> q.state, events |-> <<>>]]
          ELSE [clearPollTimer(q) EXCEPT
                  !.state = "stopped",
                  !.last = [op |-> "stop", before |-> q.state,
                            after |-> "stopped", events |-> <<"queue:stop">>],
                  !.stopPc = IF running[QD] = {} THEN "returned" ELSE "waiting",
                  !.waitFor = running[QD]]
     /\ UNCHANGED <<jobs, running, execs, inflight, QueueOthers>>

\* Promise.all(this.running.values()) is fulfilled: stop() returns.
QueueStopDone ==
  /\ dispatcher.stopPc = "waiting"
  /\ dispatcher.waitFor \cap running[QD] = {}
  /\ dispatcher.waitFor \cap dispatcher.rejected = {}
  /\ dispatcher' = [dispatcher EXCEPT !.stopPc = "returned", !.waitFor = {}]
  /\ UNCHANGED <<jobs, running, execs, inflight, QueueOthers>>

\* The grace period is over: stop() returns.
QueueStopGrace ==
  /\ dispatcher.stopPc = "waiting"
  /\ dispatcher' = [dispatcher EXCEPT
                      !.stopPc = "returned", !.waitFor = {},
                      !.abandoned = @ \cup (dispatcher.waitFor \cap running[QD])]
  /\ UNCHANGED <<jobs, running, execs, inflight, QueueOthers>>

\* One of the awaited executions rejected: so does stop().
QueueStopThrow ==
  /\ dispatcher.stopPc = "waiting"
  /\ dispatcher.waitFor \cap dispatcher.rejected # {}
  /\ dispatcher' = [dispatcher EXCEPT !.stopPc = "threw", !.waitFor = {}]
  /\ UNCHANGED <<jobs, running, execs, inflight, QueueOthers>>

\* Queue.pause
QueuePause ==
  LET q == NextCall(dispatcher)
  IN /\ dispatcher' =
          IF q.state # "running"
          THEN [q EXCEPT !.last = [op |-> "pause", before |-> q.state,
                                   after |-> q.state, events |-> <<>>]]
          ELSE [clearPollTimer(q) EXCEPT
                  !.state = "paused",
                  !.last = [op |-> "pause", before |-> q.state,
                            after |-> "paused", events |-> <<"queue:pause">>]]
     /\ UNCHANGED <<jobs, running, execs, inflight, QueueOthers>>

\* Queue.resume
QueueResume ==
  LET q == NextCall(dispatcher)
  IN /\ dispatcher' =
          IF q.state # "paused"
          THEN [q EXCEPT !.last = [op |-> "resume", before |-> q.state,
                                   after |-> q.state, events |-> <<>>]]
          ELSE schedulePoll(
                 [q EXCEPT !.state = "running",
                           !.last = [op |-> "resume", before |-> q.state,
                                     after |-> "running",
                                     events |-> <<"queue:resume">>]])
     /\ dispatcher'.orphans <= MaxOrphans
     /\ UNCHANGED <<jobs, running, execs, inflight, QueueOthers>>

\* Queue.dispatch, called by the stager or the notification listener
QueueDispatch ==
  /\ dispatcher.state = "running"
  /\ QueuePoll(dispatcher)
  /\ UNCHANGED <<running, execs, QueueOthers>>

\* The timer this.pollTimer refers to fires.
QueueTimer ==
  /\ dispatcher.pollTimer
  /\ QueuePoll([dispatcher EXCEPT !.pollTimer = FALSE])
  /\ UNCHANGED <<running, execs, QueueOthers>>

\* An older poll timer fires.
QueueOrphanTimer ==
  /\ dispatcher.orphans > 0
  /\ QueuePoll([dispatcher EXCEPT !.orphans = @ - 1])
  /\ UNCHANGED <<running, execs, QueueOthers>>

\* An awaited fetchJobs resolves: poll starts execute(job) for each row, and
\* calls schedulePoll.
QueuePollReturn ==
  \E k \in DOMAIN inflight[QD] :
    LET rows == inflight[QD][k]
        ids == {rows[j].id : j \in DOMAIN rows}
    IN /\ inflight' = [inflight EXCEPT
                         ![QD] = SubSeq(@, 1, k - 1) \o SubSeq(@, k + 1, Len(@))]
       /\ running' = [running EXCEPT ![QD] = @ \cup ids]
       /\ execs' = execs \cup {[disp |-> QD, job |-> rows[j]] : j \in DOMAIN rows}
       /\ invoked' = [i \in DOMAIN invoked |->
                        IF i \in ids /\ hasWorker(jobs[i].worker)
                        THEN invoked[i] + 1 ELSE invoked[i]]
       /\ schedulePoll(dispatcher).orphans <= MaxOrphans
       /\ dispatcher' = schedulePoll(dispatcher)
       /\ UNCHANGED <<now, adapter, jobs, drainPc, drainJobs, timers, wakes,
                      fetchVars, lastInsert, lastCall, coreVars>>

\* The promise of execute settles: finally removes the id from Queue.running.
Settle(e, q) ==
  /\ execs' = execs \ {e}
  /\ running' = [running EXCEPT ![QD] = @ \ {e.job.id}]
  /\ dispatcher' = [q EXCEPT !.catching = @ \ {e.job.id}]

\* Queue.execute writes the outcome: the updateJob of handleSuccess,
\* handleError, handleCancel or handleSnooze, or the one of handleError for a
\* worker that is not registered.
QueueWrite(e) ==
  /\ e \in execs /\ e.disp = QD
  /\ e.job.id \notin dispatcher.catching
  /\ \E result \in ExecuteResults(e.job) :
       jobs' = updateJob(jobs, e.job.id, OutcomeUpdates(e.job, result, now, 0))
  /\ Settle(e, dispatcher)
  /\ UNCHANGED <<inflight, QueueOthers>>

\* That updateJob throws: with a registered worker the catch block of
\* execute is entered; otherwise the call is outside the try and execute
\* rejects.
QueueWriteThrows(e) ==
  /\ e \in execs /\ e.disp = QD
  /\ e.job.id \notin dispatcher.catching
  /\ dispatcher.faults < MaxFaults
  /\ IF hasWorker(e.job.worker)
     THEN /\ dispatcher' = [dispatcher EXCEPT !.faults = @ + 1,
                                              !.catching = @ \cup {e.job.id}]
          /\ UNCHANGED <<running, execs>>
     ELSE Settle(e, [dispatcher EXCEPT !.faults = @ + 1,
                                       !.rejected = @ \cup {e.job.id}])
  /\ UNCHANGED <<jobs, inflight, QueueOthers>>

\* The catch block of execute: handleError writes the error outcome.
QueueCatch(e) ==
  /\ e \in execs /\ e.disp = QD
  /\ e.job.id \in dispatcher.catching
  /\ jobs' = updateJob(jobs, e.job.id, handleError(e.job, now, 0))
  /\ Settle(e, dispatcher)
  /\ UNCHANGED <<inflight, QueueOthers>>

\* The updateJob of the catch block throws as well: execute rejects.
QueueCatchThrows(e) ==
  /\ e \in execs /\ e.disp = QD
  /\ e.job.id \in dispatcher.catching
  /\ dispatcher.faults < MaxFaults
  /\ Settle(e, [dispatcher EXCEPT !.faults = @ + 1,
                                  !.rejected = @ \cup {e.job.id}])
  /\ UNCHANGED <<jobs, inflight, QueueOthers>>

QueueNext ==
  \/ QueueInsert
  \/ QueueStart
  \/ QueueStop
  \/ QueueStopDone
  \/ QueueStopGrace
  \/ QueueStopThrow
  \/ QueuePause
  \/ QueueResume
  \/ QueueDispatch
  \/ QueueTimer
  \/ QueueOrphanTimer
  \/ QueuePollReturn
  \/ \E e \in execs : QueueWrite(e)
  \/ \E e \in execs : QueueWriteThrows(e)
  \/ \E e \in execs : QueueCatch(e)
  \/ \E e \in execs : QueueCatchThrows(e)

\* The Queue is constructed stopped, with config.paused set or not; no poll
\* timer is pending.
QueueInit ==
  /\ now = 0
  /\ adapter = "postgres"
  /\ jobs = <<>>
  /\ running = [d \in Disps |-> {}]
  /\ execs = {}
  /\ invoked = <<>>
  /\ drainPc = "idle"
  /\ drainJobs = <<>>
  /\ timers = [d \in Disps |-> 0]
  /\ wakes = [d \in Disps |-> 0]
  /\ inflight = [d \in Disps |-> <<>>]
  /\ calls = [d \in Disps |-> IdleCall]
  /\ returned = <<>>
  /\ lastInsert = NoInsert
  /\ lastCall = NoCall
  /\ \E paused \in BOOLEAN : dispatcher = NewQueue(paused)
  /\ CoreIdle

QueueSpec == QueueInit /\ [][QueueNext]_vars

\* C13: an adapter call that throws while the executor persists an outcome is
\* caught: Queue.execute never rejects.
C13_ExecuteNeverRejects == dispatcher.rejected = {}

\* C14: while the Queue is paused or stopped no fetchJobs call is issued and
\* no execution begins, also when a poll was awaiting its fetchJobs at the
\* moment of pause() or stop().
C14_IdleWhilePausedOrStopped ==
  [][(Len(inflight'[QD]) > Len(inflight[QD])
        \/ ~(running'[QD] \subseteq running[QD]))
       => dispatcher.state = "running"]_vars

\* C15: when stop() returns the Queue is stopped and no poll is armed.
C15_StoppedWithNoPollArmed ==
  dispatcher.stopPc = "returned" =>
    /\ dispatcher.state = "stopped"
    /\ ~dispatcher.pollTimer
    /\ dispatcher.orphans = 0

\* What the call `op` is to do in state `before`: the state after it and the
\* events it emits.
Expected(op, before, paused) ==
  CASE op = "start" /\ before = "stopped" ->
         [after |-> IF paused THEN "paused" ELSE "running",
          events |-> <<"queue:start">>]
    [] op = "pause" /\ before = "running" ->
         [after |-> "paused", events |-> <<"queue:pause">>]
    [] op = "resume" /\ before = "paused" ->
         [after |-> "running", events |-> <<"queue:resume">>]
    [] op = "stop" /\ before # "stopped" ->
         [after |-> "stopped", events |-> <<"queue:stop">>]
    [] OTHER -> [after |-> before, events |-> <<>>]

\* C16: start, pause, resume and stop change the state of the Queue only from
\* the states named for them, emit exactly one event when they do, and have
\* no effect and emit nothing otherwise.
C16_StateMachine ==
  LET l == dispatcher.last
      x == Expected(l.op, l.before, dispatcher.paused)
  IN l.after = x.after /\ l.events = x.events

\* ------------------------------------------------------- terminal states
\* C29: a row that is completed, discarded or cancelled keeps its state, its
\* errors and its terminal timestamps through every later operation; a job
\* cancelled while its handler runs stays cancelled when the handler ends.
C29_TerminalAbsorbing ==
  [][\A i \in DOMAIN jobs :
       isTerminal(jobs[i].state) =>
         /\ jobs'[i].state = jobs[i].state
         /\ jobs'[i].errors = jobs[i].errors
         /\ jobs'[i].completedAt = jobs[i].completedAt
         /\ jobs'[i].discardedAt = jobs[i].discardedAt
         /\ jobs'[i].cancelledAt = jobs[i].cancelledAt]_vars

\* ---------------------------------------------------------------- drain
\* drain() of the process of d1 returns in this step.
DrainReturns == drainPc # "idle" /\ drainPc' = "idle"

\* C28: drain() does not return while a job of the drained queue is available
\* or in flight: when it returns no row of the queue is available and no
\* execution of the queue is running in its process.
C28_DrainReturnsWhenEmpty ==
  [][DrainReturns =>
       /\ \A i \in DOMAIN jobs' :
            jobs'[i].queue = QueueName("d1") => jobs'[i].state # "available"
       /\ running'["d1"] = {}
       /\ \A e \in execs' : e.disp # "d1"]_vars

\* C30: an execution still in flight when the grace period of stop() ran
\* out is abandoned: it makes no later write to its job, which stays
\* executing.
C30_AbandonedNeverWrites ==
  [][\A i \in dispatcher.abandoned :
       jobs'[i] = jobs[i] /\ jobs[i].state = "executing"]_vars

\* ---------------------------------------------------------------- telemetry
\* The Telemetry singleton: handlers are subscribed to an event or to "*",
\* emit() walks the handlers of the event and then those of "*", in the order
\* of their subscription, and a handler may call emit() itself.  The call
\* stack of emit() is followed one handler invocation at a time.
MaxSubs == 2

MaxEmits == 2

TelEvents == {"job:start", "job:complete"}

TelKeys == TelEvents \cup {"*"}

\* "plain" returns, "thrower" throws, "chain" calls emit("job:complete") when
\* it is handed a job:start, "again" calls emit with the event it is handed.
\* A subscription keeps its place in handlers for good: once holds the
\* subscriptions made by once(), removed those deleted from their Set, which
\* forEach passes over.
TelHandlers == {"plain", "thrower", "chain", "again"}

\* The handlers given to once().
OnceHandlers == {"plain", "again"}

TelOthers == <<now, jobs, running, execs, invoked, drainPc, drainJobs,
               adapter, pollVars, fetchVars, lastInsert, lastCall, dispatcher,
               race, pool, izi, inserts>>

\* this.handlers.get(key), as the indices of its subscriptions in the order
\* a Set iterates them
Matching(hs, key) ==
  LET F[k \in 0..Len(hs)] ==
        IF k = 0 THEN <<>>
        ELSE IF hs[k].event = key THEN Append(F[k - 1], k) ELSE F[k - 1]
  IN F[Len(hs)]

\* The handlers one emit(ev) invokes, in order: the two forEach loops.
Targets(hs, ev) == Matching(hs, ev) \o Matching(hs, "*")

\* emit(ev) is entered: it is the n-th call of emit in the process.
emitCall(t, ev) ==
  [t EXCEPT !.emitted = Append(@, [event |-> ev, subs |-> Len(t.handlers)]),
            !.stack = Append(@, [event |-> ev, n |-> Len(t.emitted) + 1,
                                 idx |-> 1])]

\* An emit whose handler exception is not caught: it unwinds every emit on
\* the stack.
rethrowHandler(t) == [t EXCEPT !.stack = <<>>, !.threw = TRUE]

\* try { handler(fullPayload) } catch { } around a handler that threw
catchHandler(t) == t

\* A once() wrapper that does not unsubscribe.
onceKeep(t, h) == t

\* The wrapper of once(): unsubscribe() before handler(payload).
onceWrapper(t, h) == [t EXCEPT !.removed = @ \cup {h}]

\* telemetry.on(key, h): Set.add, which ignores a handler already present.
TelOn ==
  /\ telemetry.stack = <<>>
  /\ Len(telemetry.handlers) < MaxSubs
  /\ \E key \in TelKeys, h \in TelHandlers :
       /\ \A i \in DOMAIN telemetry.handlers :
            i \notin telemetry.once \cup telemetry.removed
              => telemetry.handlers[i] # [event |-> key, handler |-> h]
       /\ telemetry' = [telemetry EXCEPT
                          !.handlers = Append(@, [event |-> key, handler |-> h]),
                          !.delivered = Append(@, <<>>)]
  /\ UNCHANGED TelOthers

\* telemetry.once(key, h): a new wrapper is subscribed.
TelOnce ==
  /\ telemetry.stack = <<>>
  /\ Len(telemetry.handlers) < MaxSubs
  /\ \E key \in TelKeys, h \in OnceHandlers :
       telemetry' = [telemetry EXCEPT
                       !.handlers = Append(@, [event |-> key, handler |-> h]),
                       !.delivered = Append(@, <<>>),
                       !.once = @ \cup {Len(telemetry.handlers) + 1}]
  /\ UNCHANGED TelOthers

\* The program calls the function that on() or once() returned.
TelUnsubscribe ==
  /\ telemetry.stack = <<>>
  /\ \E i \in DOMAIN telemetry.handlers \ telemetry.removed :
       telemetry' = [telemetry EXCEPT !.removed = @ \cup {i}]
  /\ UNCHANGED TelOthers

\* telemetry.emit(ev) called by the program (not by a handler)
TelEmit ==
  /\ telemetry.stack = <<>>
  /\ Len(telemetry.emitted) < MaxEmits
  /\ \E ev \in TelEvents : telemetry' = emitCall(telemetry, ev)
  /\ UNCHANGED TelOthers

\* The innermost emit invokes its next handler.
TelDeliver ==
  LET t == telemetry
      top == Len(t.stack)
      f == t.stack[top]
      list == Targets(t.handlers, f.event)
      h == list[f.idx]
      t0 == [t EXCEPT !.delivered[h] = Append(@, f.n),
                      !.stack[top].idx = @ + 1]
      t1 == IF h \in t.once THEN onceWrapper(t0, h) ELSE t0
  IN /\ t.stack # <<>>
     /\ f.idx <= Len(list)
     /\ CASE h \in t.removed ->
               telemetry' = [t EXCEPT !.stack[top].idx = @ + 1]
          [] t.handlers[h].handler = "chain" /\ f.event = "job:start" ->
               /\ Len(t.emitted) < MaxEmits
               /\ telemetry' = emitCall(t1, "job:complete")
          [] t.handlers[h].handler = "again" ->
               /\ Len(t.emitted) < MaxEmits
               /\ telemetry' = emitCall(t1, f.event)
          [] t.handlers[h].handler = "thrower" ->
               telemetry' = catchHandler(t1)
          [] OTHER -> telemetry' = t1
     /\ UNCHANGED TelOthers

\* The innermost emit has walked both sets: it returns.
TelReturn ==
  LET t == telemetry
      f == t.stack[Len(t.stack)]
  IN /\ t.stack # <<>>
     /\ f.idx > Len(Targets(t.handlers, f.event))
     /\ telemetry' = [t EXCEPT !.stack = SubSeq(@, 1, Len(@) - 1)]
     /\ UNCHANGED TelOthers

TelNext ==
  \/ TelOn
  \/ TelOnce
  \/ TelUnsubscribe
  \/ TelEmit
  \/ TelDeliver
  \/ TelReturn

TelInit == Started("sqlite")

TelSpec == TelInit /\ [][TelNext]_vars

\* The emit numbered n has returned.
Completed(n) ==
  /\ n \in DOMAIN telemetry.emitted
  /\ \A k \in DOMAIN telemetry.stack : telemetry.stack[k].n # n

\* How many times subscription h was handed the emit numbered n.
Handed(h, n) ==
  Cardinality({k \in DOMAIN telemetry.delivered[h] :
                 telemetry.delivered[h][k] = n})

\* C25: emit never throws because of a handler, and an emit that returned
\* has invoked every handler subscribed to its event or to "*" exactly once,
\* throwing handlers among them or not.
C25_HandlersIsolated ==
  /\ ~telemetry.threw
  /\ \A n \in DOMAIN telemetry.emitted :
       Completed(n) =>
         \A h \in (1..telemetry.emitted[n].subs) \ telemetry.removed :
           Handed(h, n) =
             IF telemetry.handlers[h].event
                  \in {telemetry.emitted[n].event, "*"}
             THEN 1 ELSE 0

\* An emit returned after a handler that threw and a handler subscribed after
\* it, to the same event, were both invoked.
C25_ThrowerThenOther ==
  \E n \in DOMAIN telemetry.emitted : \E h1, h2 \in DOMAIN telemetry.handlers :
    /\ Completed(n)
    /\ h1 < h2
    /\ telemetry.handlers[h1] =
         [event |-> telemetry.emitted[n].event, handler |-> "thrower"]
    /\ telemetry.handlers[h2] =
         [event |-> telemetry.emitted[n].event, handler |-> "plain"]
    /\ Handed(h1, n) = 1 /\ Handed(h2, n) = 1

\* C26: every subscription is handed the events in the order in which emit()
\* was called, also when a handler calls emit() during a delivery.
C26_DeliveredInEmitOrder ==
  \A h \in DOMAIN telemetry.delivered :
    \A i, j \in DOMAIN telemetry.delivered[h] :
      i < j => telemetry.delivered[h][i] < telemetry.delivered[h][j]

\* ------------------------------------------------------------ executeWorker
\* One call of executeWorker for a registered, non-isolated worker: perform
\* is raced against a timer.  The handler settles `duration` after the call
\* (never when duration is NULL), the timer fires `timeout` after it; when
\* both are due at the same time either may come first.
MaxRaceTime == 3

MaxDuration == 3

RaceTimeouts == {1, 2}

\* What perform does when it settles: it resolves with a WorkerResult, it
\* resolves with undefined, or it throws (rejects).
Performs == {"ok", "error", "cancel", "snooze", "void", "throws"}

RaceOthers == <<now, jobs, running, execs, invoked, drainPc, drainJobs,
                adapter, pollVars, fetchVars, lastInsert, lastCall, dispatcher,
                telemetry, pool, izi, inserts>>

WorkerResult(status, error) == [status |-> status, error |-> error]

\* The result executeWorker makes of what the handler settled with.
OwnResult(b) ==
  CASE b = "void" -> WorkerResult("ok", "")
    [] b = "throws" -> WorkerResult("error", "thrown")
    [] b = "error" -> WorkerResult("error", "failed")
    [] OTHER -> WorkerResult(b, "")

TimedOut == WorkerResult("error", "timed out")

\* A race in which the later of the two settlements replaces the result.
raceOverwrite(r, result) == [r EXCEPT !.pc = "resolved", !.result = result]

\* Promise.race: the first settlement decides, a later one is ignored.
raceSettle(r, result) ==
  IF r.pc = "racing"
  THEN [r EXCEPT !.pc = "resolved", !.result = result]
  ELSE r

RaceCall ==
  /\ race.pc = "none"
  /\ \E b \in Performs, d \in (0..MaxDuration) \cup {NULL}, t \in RaceTimeouts :
       race' = [pc |-> "racing", perform |-> b, duration |-> d,
                timeout |-> t, elapsed |-> 0, handlerDone |-> FALSE,
                timerFired |-> FALSE, result |-> WorkerResult("none", ""),
                rejected |-> FALSE]
  /\ UNCHANGED RaceOthers

\* Time passes when nothing is due.
RaceTick ==
  /\ race.pc # "none"
  /\ race.elapsed < MaxRaceTime
  /\ race.handlerDone \/ race.duration = NULL \/ race.duration > race.elapsed
  /\ race.timerFired \/ race.timeout > race.elapsed
  /\ race' = [race EXCEPT !.elapsed = @ + 1]
  /\ UNCHANGED RaceOthers

\* worker.perform(job) settles.
RaceHandler ==
  /\ race.pc # "none"
  /\ ~race.handlerDone
  /\ race.duration # NULL /\ race.duration <= race.elapsed
  /\ race' = raceSettle([race EXCEPT !.handlerDone = TRUE],
                        OwnResult(race.perform))
  /\ UNCHANGED RaceOthers

\* The timer of the race fires and rejects.
RaceTimer ==
  /\ race.pc # "none"
  /\ ~race.timerFired
  /\ race.timeout <= race.elapsed
  /\ race' = raceSettle([race EXCEPT !.timerFired = TRUE], TimedOut)
  /\ UNCHANGED RaceOthers

RaceNext == RaceCall \/ RaceTick \/ RaceHandler \/ RaceTimer

RaceInit == Started("sqlite")

RaceSpec ==
  /\ RaceInit
  /\ [][RaceNext]_vars
  /\ WF_vars(RaceTick) /\ WF_vars(RaceHandler) /\ WF_vars(RaceTimer)

\* What a resolved executeWorker has resolved with.
RaceResultRight ==
  race.pc = "resolved" =>
    /\ ~race.rejected
    /\ race.result.status \in {"ok", "error", "cancel", "snooze"}
    /\ (race.duration # NULL /\ race.duration < race.timeout)
         => race.result = OwnResult(race.perform)
    /\ (race.duration = NULL \/ race.duration > race.timeout)
         => race.result = TimedOut
    /\ race.result \in {OwnResult(race.perform), TimedOut}

\* C21: executeWorker always resolves, with one WorkerResult: the handler's
\* own result when it settles before the timeout (undefined is ok, a throw is
\* an error), a 'timed out' error when the timer is first; the handler goes
\* on after the timeout and what it settles with later changes nothing.
C21_RaceResolvesOnce ==
  /\ []RaceResultRight
  /\ [][race.pc = "resolved" =>
          race'.pc = "resolved" /\ race'.result = race.result]_vars
  /\ (race.pc = "racing") ~> (race.pc = "resolved")

\* The timer was first, and the handler settled with ok after it.
C21_LateHandler ==
  /\ race.pc = "resolved" /\ race.result = TimedOut
  /\ race.timerFired /\ race.handlerDone
  /\ race.perform = "ok" /\ race.duration > race.timeout

\* ------------------------------------------------------------- ThreadPool
\* The pool of isolated worker threads.  ctx holds every context ever
\* spawned (its thread running, terminating after terminate(), or exited),
\* workers is this.workers, pending is this.pendingJobs (per job id the call
\* of execute whose entry it holds, 0 for none) and calls holds every call
\* of execute with its result and its timer.  A thread hands in its result
\* in one step; after terminate() only its exit event arrives.
MaxThreads == 2

MaxContexts == 3

MaxCalls == 3

PoolJobIds == {1, 2}

PoolOthers == <<now, jobs, running, execs, invoked, drainPc, drainJobs,
                adapter, pollVars, fetchVars, lastInsert, lastCall, dispatcher,
                telemetry, race, izi, inserts>>

NewPool ==
  [pc |-> "open", shuttingDown |-> FALSE, shutdownPc |-> "idle",
   waitExit |-> {}, workers |-> <<>>, ctx |-> <<>>,
   pending |-> [j \in PoolJobIds |-> 0], calls |-> <<>>]

\* pending.resolve(result): a promise is settled by its first resolve.
resolveCall(p, k, result) ==
  IF p.calls[k].result = "pending"
  THEN [p EXCEPT !.calls[k].result = result]
  ELSE p

\* clearTimeout(pending.timeoutId), this.pendingJobs.delete(jobId) and
\* pending.resolve(result) for the entry of job j, when there is one
settlePending(p, j, result) ==
  LET k == p.pending[j]
  IN IF k = 0 THEN p
     ELSE resolveCall([p EXCEPT !.calls[k].timer = FALSE, !.pending[j] = 0],
                      k, result)

\* worker.terminate()
terminateWorker(p, c) ==
  [p EXCEPT !.ctx[c].state = IF @ = "running" THEN "terminating" ELSE @,
            !.ctx[c].work = NULL]

\* this.workers.splice(this.workers.indexOf(pooled), 1)
spliceWorker(p, c) ==
  [p EXCEPT !.workers = SelectSeq(@, LAMBDA x : x # c)]

\* A pool that spawns a context whenever none is idle.
spawnWhenBusy(p) ==
  LET idle == SelectSeq(p.workers, LAMBDA c : ~p.ctx[c].busy)
  IN IF idle # <<>> THEN [kind |-> "idle", c |-> Head(idle)]
     ELSE [kind |-> "spawn", c |-> Len(p.ctx) + 1]

\* ThreadPool.getAvailableWorker
getAvailableWorker(p) ==
  LET idle == SelectSeq(p.workers, LAMBDA c : ~p.ctx[c].busy)
  IN IF idle # <<>> THEN [kind |-> "idle", c |-> Head(idle)]
     ELSE IF Len(p.workers) < MaxThreads
     THEN [kind |-> "spawn", c |-> Len(p.ctx) + 1]
     ELSE [kind |-> "none", c |-> 0]

NewCall(j, c, result) ==
  [job |-> j, ctx |-> c, result |-> result, timer |-> result = "pending",
   timeouts |-> 0]

\* ThreadPool.execute(job, options, timeout)
PoolExecute ==
  /\ Len(pool.calls) < MaxCalls
  /\ \E j \in PoolJobIds :
       LET a == getAvailableWorker(pool)
           k == Len(pool.calls) + 1
           p1 == IF a.kind = "spawn"
                 THEN [pool EXCEPT
                         !.ctx = Append(@, [state |-> "running", busy |-> FALSE,
                                            currentJobId |-> NULL,
                                            work |-> NULL, timedOut |-> FALSE,
                                            failed |-> FALSE]),
                         !.workers = Append(@, a.c)]
                 ELSE pool
       IN IF pool.shuttingDown
          THEN pool' = [pool EXCEPT
                          !.calls = Append(@, NewCall(j, 0, "shutting down"))]
          ELSE IF a.kind = "none"
          THEN pool' = [pool EXCEPT
                          !.calls = Append(@, NewCall(j, 0, "no threads"))]
          ELSE /\ a.c <= MaxContexts
               /\ pool' = [p1 EXCEPT
                             !.ctx[a.c].busy = TRUE,
                             !.ctx[a.c].currentJobId = j,
                             !.ctx[a.c].work = j,
                             !.pending[j] = k,
                             !.calls = Append(@, NewCall(j, a.c, "pending"))]
  /\ UNCHANGED PoolOthers

\* The thread of context c is done with its job: handleWorkerMessage gets
\* its result or error message.
PoolMessage(c) ==
  /\ c \in DOMAIN pool.ctx
  /\ pool.ctx[c].state = "running"
  /\ pool.ctx[c].work # NULL
  /\ \E result \in {"ok", "error"} :
       LET j == pool.ctx[c].work
           p1 == [pool EXCEPT !.ctx[c].work = NULL]
       IN pool' = IF pool.pending[j] = 0 THEN p1
                  ELSE settlePending([p1 EXCEPT !.ctx[c].busy = FALSE,
                                                !.ctx[c].currentJobId = NULL],
                                     j, result)
  /\ UNCHANGED PoolOthers

\* The timer of call k fires.
PoolTimeout(k) ==
  /\ k \in DOMAIN pool.calls
  /\ pool.calls[k].timer
  /\ LET j == pool.calls[k].job
         c == pool.calls[k].ctx
         p1 == [pool EXCEPT !.calls[k].timer = FALSE]
     IN pool' =
          IF pool.pending[j] = 0 THEN p1
          ELSE resolveCall(
                 spliceWorker(
                   terminateWorker(
                     [p1 EXCEPT !.pending[j] = 0,
                                !.calls[k].timeouts = @ + 1,
                                !.ctx[c].timedOut = TRUE], c), c),
                 k, "timed out")
  /\ UNCHANGED PoolOthers

\* ThreadPool.handleWorkerError and handleWorkerExit: the pending entry of
\* the context's current job id is resolved with an error and the context
\* leaves this.workers.
handleWorkerGone(p, c, result) ==
  LET j == p.ctx[c].currentJobId
  IN spliceWorker(IF j = NULL THEN p ELSE settlePending(p, j, result), c)

\* The exit event of a terminated context: handleWorkerExit.
PoolExit(c) ==
  /\ c \in DOMAIN pool.ctx
  /\ pool.ctx[c].state = "terminating"
  /\ pool' = handleWorkerGone([pool EXCEPT !.ctx[c].state = "exited"],
                              c, "exited")
  /\ UNCHANGED PoolOthers

\* The thread of context c throws an uncaught exception: the error event
\* goes to handleWorkerError, and the thread ends (its exit event follows).
PoolError(c) ==
  /\ c \in DOMAIN pool.ctx
  /\ pool.ctx[c].state = "running"
  /\ pool' = handleWorkerGone([pool EXCEPT !.ctx[c].state = "terminating",
                                           !.ctx[c].work = NULL,
                                           !.ctx[c].failed = TRUE],
                              c, "error")
  /\ UNCHANGED PoolOthers

\* The thread of context c ends by itself (process.exit in the handler): its
\* exit event goes to handleWorkerExit.
PoolCrash(c) ==
  /\ c \in DOMAIN pool.ctx
  /\ pool.ctx[c].state = "running"
  /\ pool' = handleWorkerGone([pool EXCEPT !.ctx[c].state = "exited",
                                           !.ctx[c].work = NULL,
                                           !.ctx[c].failed = TRUE],
                              c, "exited")
  /\ UNCHANGED PoolOthers

\* ThreadPool.terminate(jobId)
PoolTerminate ==
  /\ ~pool.shuttingDown
  /\ \E j \in PoolJobIds :
       LET held == SelectSeq(pool.workers,
                             LAMBDA c : pool.ctx[c].currentJobId = j)
       IN /\ held # <<>>
          /\ pool' = spliceWorker(
                       terminateWorker(settlePending(pool, j, "terminated"),
                                       Head(held)),
                       Head(held))
  /\ UNCHANGED PoolOthers

\* cleanupIdleWorkers finds context c idle for longer than idleTimeoutMs.
PoolCleanup(c) ==
  /\ ~pool.shuttingDown
  /\ \E i \in DOMAIN pool.workers : pool.workers[i] = c
  /\ ~pool.ctx[c].busy
  /\ pool' = spliceWorker(terminateWorker(pool, c), c)
  /\ UNCHANGED PoolOthers

\* ThreadPool.shutdown up to its await
PoolShutdown ==
  /\ pool.shutdownPc = "idle"
  /\ pool' = [pool EXCEPT
       !.shuttingDown = TRUE,
       !.shutdownPc = "waiting",
       !.waitExit = Range(pool.workers),
       !.calls = [k \in DOMAIN pool.calls |->
                    IF pool.pending[pool.calls[k].job] = k
                    THEN [pool.calls[k] EXCEPT
                            !.timer = FALSE,
                            !.result = IF @ = "pending" THEN "shutdown" ELSE @]
                    ELSE pool.calls[k]],
       !.pending = [j \in PoolJobIds |-> 0],
       !.ctx = [c \in DOMAIN pool.ctx |->
                  IF c \in Range(pool.workers)
                  THEN [pool.ctx[c] EXCEPT
                          !.state = IF @ = "running" THEN "terminating" ELSE @,
                          !.work = NULL]
                  ELSE pool.ctx[c]]]
  /\ UNCHANGED PoolOthers

\* Every context shutdown() waits for has exited: this.workers = [].
PoolShutdownDone ==
  /\ pool.shutdownPc = "waiting"
  /\ \A c \in pool.waitExit : pool.ctx[c].state = "exited"
  /\ pool' = [pool EXCEPT !.shutdownPc = "done", !.workers = <<>>]
  /\ UNCHANGED PoolOthers

PoolNext ==
  \/ PoolExecute
  \/ \E c \in 1..MaxContexts : PoolMessage(c)
  \/ \E k \in 1..MaxCalls : PoolTimeout(k)
  \/ \E c \in 1..MaxContexts : PoolExit(c)
  \/ \E c \in 1..MaxContexts : PoolError(c)
  \/ \E c \in 1..MaxContexts : PoolCrash(c)
  \/ PoolTerminate
  \/ \E c \in 1..MaxContexts : PoolCleanup(c)
  \/ PoolShutdown
  \/ PoolShutdownDone

PoolInit ==
  /\ now = 0
  /\ adapter = "sqlite"
  /\ jobs = <<>>
  /\ running = [d \in Disps |-> {}]
  /\ execs = {}
  /\ invoked = <<>>
  /\ drainPc = "idle"
  /\ drainJobs = <<>>
  /\ timers = [d \in Disps |-> 0]
  /\ wakes = [d \in Disps |-> 0]
  /\ inflight = [d \in Disps |-> <<>>]
  /\ calls = [d \in Disps |-> IdleCall]
  /\ returned = <<>>
  /\ lastInsert = NoInsert
  /\ lastCall = NoCall
  /\ dispatcher = NewQueue(FALSE)
  /\ telemetry = NewTelemetry
  /\ race = NoRace
  /\ izi = NoIzi
  /\ inserts = NoInserts
  /\ pool = NewPool

PoolSpec == PoolInit /\ [][PoolNext]_vars

Busy(p) == {c \in Range(p.workers) : p.ctx[c].busy}

\* Call k of execute is made in this step and answered 'No available worker
\* threads'.
Refused(k) ==
  /\ Len(pool'.calls) = k /\ Len(pool.calls) = k - 1
  /\ pool'.calls[k].result = "no threads"

C23_TimedOutContextInert ==
  /\ [](\A k \in DOMAIN pool.calls : pool.calls[k].timeouts <= 1)
  /\ [](\A c \in DOMAIN pool.ctx :
          pool.ctx[c].timedOut => c \notin Range(pool.workers))
  /\ [][\A c \in DOMAIN pool.ctx :
          (pool.ctx[c].timedOut /\ pool.ctx[c].state = "terminating"
             /\ pool'.ctx[c].state = "exited")
            => pool'.calls = pool.calls /\ pool'.pending = pool.pending]_vars

\* C24: after shutdown() was called the pool takes no work and spawns
\* nothing, every call of execute that was pending has been resolved, every
\* context of the pool has been terminated, and shutdown() is done only when
\* all of them have exited, with no context and no pending job left.
C24_ShutdownDrainsPool ==
  /\ [](pool.shuttingDown =>
          /\ \A j \in PoolJobIds : pool.pending[j] = 0
          /\ \A k \in DOMAIN pool.calls : pool.calls[k].result # "pending"
          /\ \A c \in Range(pool.workers) : pool.ctx[c].state # "running")
  /\ [](pool.shutdownPc = "done" =>
          /\ pool.workers = <<>>
          /\ \A c \in pool.waitExit : pool.ctx[c].state = "exited")
  /\ [][pool.shuttingDown =>
          /\ Len(pool'.ctx) = Len(pool.ctx)
          /\ \A k \in DOMAIN pool'.calls :
               k \notin DOMAIN pool.calls
                 => pool'.calls[k].result = "shutting down"]_vars

\* --------------------------------------------------------------- IziQueue
\* The orchestrator: its constructor, start, stop and shutdown.  izi holds
\* the configuration (isolation configured or not, the plugins in order) and
\* the fields queues, stageTimer and started; pool is the module-level
\* threadPool of the isolation executor.
MaxPlugins == 2

PluginKinds == {"valid", "invalid", "unchecked"}

IziConfigs ==
  {[isolation |-> iso, plugins |-> pls] :
     iso \in BOOLEAN,
     pls \in UNION {[1..n -> PluginKinds] : n \in 0..MaxPlugins}}

IziOthers == <<now, jobs, running, execs, invoked, drainPc, drainJobs,
               adapter, pollVars, fetchVars, lastInsert, lastCall, dispatcher,
               telemetry, race, inserts>>

NewIzi(config) ==
  [pc |-> "new", config |-> config, queues |-> FALSE, stageTimer |-> FALSE,
   started |-> FALSE, pluginsStarted |-> 0]

\* plugin.validate() of the plugin kinds: the number of errors returned
validate(kind) == IF kind = "invalid" THEN 1 ELSE 0

\* initializeIsolation(config)
initializeIsolation(p) == IF p.pc = "none" THEN NewPool ELSE p

\* new IziQueue(config)
IziNew ==
  /\ izi.pc = "new"
  /\ pool' = IF izi.config.isolation THEN initializeIsolation(pool) ELSE pool
  /\ izi' = [izi EXCEPT !.pc =
       IF \E i \in DOMAIN izi.config.plugins :
            /\ izi.config.plugins[i] # "unchecked"
            /\ validate(izi.config.plugins[i]) > 0
       THEN "threw" ELSE "constructed"]
  /\ UNCHANGED IziOthers

\* IziQueue.start up to the first plugin.start
IziStart ==
  /\ izi.pc = "constructed"
  /\ ~izi.started
  /\ izi' = [izi EXCEPT !.pc = "starting", !.queues = TRUE,
                        !.stageTimer = TRUE]
  /\ UNCHANGED <<pool, IziOthers>>

\* await plugin.start(pluginContext) of the next plugin
IziPluginStart ==
  /\ izi.pc = "starting"
  /\ izi.pluginsStarted < Len(izi.config.plugins)
  /\ izi' = [izi EXCEPT !.pluginsStarted = @ + 1]
  /\ UNCHANGED <<pool, IziOthers>>

\* this.started = true
IziStartDone ==
  /\ izi.pc = "starting"
  /\ izi.pluginsStarted = Len(izi.config.plugins)
  /\ izi' = [izi EXCEPT !.pc = "constructed", !.started = TRUE]
  /\ UNCHANGED <<pool, IziOthers>>

\* IziQueue.stop
IziStop ==
  /\ izi.pc = "constructed"
  /\ izi.started
  /\ izi' = [izi EXCEPT !.pluginsStarted = 0, !.stageTimer = FALSE,
                        !.started = FALSE]
  /\ UNCHANGED <<pool, IziOthers>>

\* IziQueue.shutdown after its stop(): shutdownIsolatedWorkers and close
IziShutdown ==
  /\ izi.pc = "constructed"
  /\ ~izi.started
  /\ pool' = NoPool
  /\ izi' = [izi EXCEPT !.pc = "shutdown"]
  /\ UNCHANGED IziOthers

IziNext ==
  \/ IziNew
  \/ IziStart
  \/ IziPluginStart
  \/ IziStartDone
  \/ IziStop
  \/ IziShutdown

IziInit ==
  /\ now = 0
  /\ adapter = "sqlite"
  /\ jobs = <<>>
  /\ running = [d \in Disps |-> {}]
  /\ execs = {}
  /\ invoked = <<>>
  /\ drainPc = "idle"
  /\ drainJobs = <<>>
  /\ timers = [d \in Disps |-> 0]
  /\ wakes = [d \in Disps |-> 0]
  /\ inflight = [d \in Disps |-> <<>>]
  /\ calls = [d \in Disps |-> IdleCall]
  /\ returned = <<>>
  /\ lastInsert = NoInsert
  /\ lastCall = NoCall
  /\ dispatcher = NewQueue(FALSE)
  /\ telemetry = NewTelemetry
  /\ race = NoRace
  /\ pool = NoPool
  /\ inserts = NoInserts
  /\ \E config \in IziConfigs : izi = NewIzi(config)

IziSpec == IziInit /\ [][IziNext]_vars

\* C27: when validate() of a configured plugin returns errors, creating the
\* orchestrator throws, and then no dispatcher, no stager timer, no started
\* plugin and no isolation pool exists.
C27_InvalidPluginStartsNothing ==
  /\ (\E i \in DOMAIN izi.config.plugins : izi.config.plugins[i] = "invalid")
       => izi.pc \in {"new", "threw"}
  /\ izi.pc = "threw" =>
       /\ ~izi.queues
       /\ ~izi.stageTimer
       /\ izi.pluginsStarted = 0
       /\ pool.pc = "none"

\* ------------------------------------------------- rows over the lifecycle
\* An execution of job i ends in this step with an outcome other than ok or
\* snooze: Queue.execute goes through handleError or handleCancel.
FailedNow(i) ==
  \E e \in execs \ execs' :
    /\ e.job.id = i
    /\ jobs'[i].state \in {"retryable", "discarded", "cancelled"}

Increasing(s) == \A a, b \in DOMAIN s : a < b => s[a] < s[b]

\* C31: the errors of a job gain exactly one record with each failed or
\* cancelled execution, never lose a record, and hold strictly increasing
\* attempt numbers.
C31_ErrorsGrowPerFailure ==
  [][\A i \in DOMAIN jobs :
       /\ Len(jobs'[i].errors) >= Len(jobs[i].errors)
       /\ SubSeq(jobs'[i].errors, 1, Len(jobs[i].errors)) = jobs[i].errors
       /\ FailedNow(i) => Len(jobs'[i].errors) = Len(jobs[i].errors) + 1
       /\ Increasing(jobs'[i].errors)]_vars

\* C32: every row has inserted_at <= scheduled_at, whether it was inserted
\* with a scheduledAt of the caller or without one, and after retry, snooze
\* and rescue have rewritten scheduled_at.
C32_InsertedBeforeScheduled ==
  \A i \in DOMAIN jobs : jobs[i].insertedAt <= jobs[i].scheduledAt

\* ------------------------------------------------- the pool under failures
\* The call of execute that context c is serving: the pending call that was
\* given to c, 0 when there is none.
Serving(p, c) ==
  LET ks == {k \in DOMAIN p.calls :
               p.calls[k].ctx = c /\ p.calls[k].result = "pending"}
  IN IF ks = {} THEN 0 ELSE CHOOSE k \in ks : \A q \in ks : q <= k

\* C33: when a context raises an error or exits while it has a current job,
\* the execute() call it serves is resolved, once, with an error result, the
\* context leaves the pool, and every later execute() is served by another
\* context.
C33_FailedContextResolvesJob ==
  /\ [][\A c \in DOMAIN pool.ctx :
          (~pool.ctx[c].failed /\ pool'.ctx[c].failed /\ Serving(pool, c) # 0)
            => pool'.calls[Serving(pool, c)].result \in {"error", "exited"}]_vars
  /\ [](\A c \in DOMAIN pool.ctx :
          pool.ctx[c].failed => c \notin Range(pool.workers))
  /\ [][\A k \in DOMAIN pool.calls :
          pool.calls[k].result # "pending"
            => pool'.calls[k].result = pool.calls[k].result]_vars

OverlapOptions ==
  [fields : {DefaultFields}, keys : {<<>>},
   period : {DefaultPeriod, Infinity}, states : {DefaultStates}]

OverlapOthers == <<running, execs, drainPc, drainJobs, adapter, timers,
                   inflight, fetchVars, lastInsert, lastCall, dispatcher,
                   telemetry, race, pool, izi>>

\* insertWithResult up to the answer of checkUnique: with a row found it
\* returns that row as a conflict.
OverlapCheck(c) ==
  /\ inserts[c].pc = "idle"
  /\ \E o \in UniqueInsertOptions, options \in OverlapOptions :
       LET jobData == createJob("Worker", o, now)
           found == checkUnique(jobs, options, jobData, now)
           call == [args |-> o.args, scheduledAt |-> o.scheduledAt,
                    options |-> options, jobData |-> jobData,
                    overlapped |-> \E d \in Callers : inserts[d].pc = "checked"]
       IN IF found # {}
          THEN \E i \in found :
                 inserts' = [inserts EXCEPT ![c] =
                   [pc |-> "done", conflict |-> TRUE, id |-> i] @@ call]
          ELSE inserts' = [inserts EXCEPT ![c] =
                   [pc |-> "checked", conflict |-> FALSE, id |-> 0] @@ call]
  /\ UNCHANGED <<now, jobs, invoked, wakes, OverlapOthers>>

\* insertWithResult after checkUnique found nothing: insertJob and notify
OverlapInsert(c) ==
  /\ inserts[c].pc = "checked"
  /\ jobs' = insertJob(jobs, inserts[c].jobData, now)
  /\ invoked' = Append(invoked, 0)
  /\ wakes' = IF adapter = "postgres"
              THEN [d \in Disps |-> wakes[d] + 1] ELSE wakes
  /\ inserts' = [inserts EXCEPT ![c].pc = "done", ![c].id = Len(jobs) + 1]
  /\ UNCHANGED <<now, OverlapOthers>>

OverlapTick ==
  /\ now < UniqueMaxTime
  /\ now' = now + 1
  /\ UNCHANGED <<jobs, invoked, wakes, inserts, OverlapOthers>>

OverlapNext ==
  \/ \E c \in Callers : OverlapCheck(c)
  \/ \E c \in Callers : OverlapInsert(c)
  \/ OverlapTick

OverlapInit == \E a \in UniqueAdapters : Started(a)

OverlapSpec == OverlapInit /\ [][OverlapNext]_vars

\* C35: of two overlapping insertWithResult calls with the same unique
\* options, worker, queue and args, exactly one returns conflict = false and
\* the other returns conflict = true with the id of the row of the first: one
\* row is persisted.
C35_OverlappingInsertsConflict ==
  \A c, d \in Callers :
    (/\ c # d
     /\ inserts[c].pc = "done" /\ inserts[d].pc = "done"
     /\ inserts[c].overlapped
     /\ inserts[c].args = inserts[d].args
     /\ inserts[c].options = inserts[d].options)
      => /\ inserts[c].conflict # inserts[d].conflict
         /\ inserts[c].id = inserts[d].id
         /\ Len(jobs) = 1

\* ------------------------------------------------------- poll timers
\* The poll timers of the dispatcher that are pending.
PendingPolls ==
  (IF dispatcher.pollTimer THEN 1 ELSE 0) + dispatcher.orphans

\* C36: a dispatcher has at most one poll timer pending, whatever sequence
\* of start, pause, resume, dispatch and stop was called: dispatch() wakes
\* add no periodic poll.
C36_OnePollTimer == PendingPolls <= 1

\* ------------------------------------------------------- Queue.running
\* The lifecycle with a queue limit of RunLimit: a dispatcher with a free
\* slot fetches whatever row is available, one it is already executing too.
RunLimit == 2

\* The poll timer of dispatcher d fires.
RunPoll(d) ==
  LET p == PollEffectN(d, RunLimit, jobs, running, execs, invoked)
  IN /\ p.ids # {}
     /\ Capped(jobs, p.ids)
     /\ jobs' = p.jobs
     /\ running' = p.running
     /\ execs' = p.execs
     /\ invoked' = p.invoked
     /\ UNCHANGED <<now, drainPc, drainJobs>>
     /\ UNCHANGED auxVars

RunNext ==
  \/ Insert
  \/ Tick
  \/ \E d \in Disps : RunPoll(d)
  \/ \E e \in execs : Finish(e)
  \/ Rescue

RunSpec == Init /\ [][RunNext]_vars

\* C37: runningCount of a dispatcher is the number of executions it has
\* started and not yet finished, also when a job is fetched again after a
\* rescue while its earlier execution is in flight.
C37_RunningCountsExecutions ==
  \A d \in Disps : Cardinality(running[d]) = Cardinality(Executing(d))

\* C38: every execute() call is resolved by exactly one of the events of its
\* own job, so that no context of the pool is left marked busy, with its
\* thread running, without a call that is waiting for it.
C38_BusyContextIsAwaited ==
  ~pool.shuttingDown =>
    \A c \in Range(pool.workers) :
      (pool.ctx[c].busy /\ pool.ctx[c].state = "running")
        => Serving(pool, c) # 0

\* ------------------------------------------------- drain and the attempts
\* C39: drain() consumes no attempt: the attempt counter of a job is the
\* number of times a handler was invoked for it, drain or no drain.
C39_AttemptsAreInvocations ==
  \A i \in DOMAIN jobs :
    hasWorker(jobs[i].worker) => jobs[i].attempt = invoked[i]

\* ------------------------------------------------- drain beside one Queue
\* drain() of a process whose dispatcher for the queue is running or paused
\* (dispatcher.state).  Neither fetchJobs nor drain() reads the attempt
\* counter, which is kept up to AttemptCap here.
LiveOn == dispatcher.state = "running"

LiveBegin ==
  /\ drainPc = "idle"
  /\ DrainBeginOn(LiveOn, FALSE)

LiveFetch ==
  /\ drainPc = "fetch"
  /\ DrainFetchOn(FALSE)

LiveWrite ==
  /\ drainPc = "write"
  /\ DrainWriteOn(LiveOn, FALSE)

\* The poll timer of the dispatcher fires.
LivePoll ==
  LET p == PollEffect("d1", jobs, running, execs, invoked)
  IN /\ LiveOn
     /\ p.ids # {}
     /\ jobs' = p.jobs
     /\ running' = p.running
     /\ execs' = p.execs
     /\ invoked' = p.invoked
     /\ UNCHANGED <<now, drainPc, drainJobs>>
     /\ UNCHANGED auxVars

LiveNext ==
  \/ Insert
  \/ Tick
  \/ LivePoll
  \/ \E e \in execs : Finish(e)
  \/ LiveBegin
  \/ LiveFetch
  \/ LiveWrite
  \/ DrainWake

LiveInit ==
  /\ now = 0
  /\ adapter = "sqlite"
  /\ jobs = <<>>
  /\ running = [d \in Disps |-> {}]
  /\ execs = {}
  /\ invoked = <<>>
  /\ drainPc = "idle"
  /\ drainJobs = <<>>
  /\ timers = [d \in Disps |-> 1]
  /\ wakes = [d \in Disps |-> 0]
  /\ inflight = [d \in Disps |-> <<>>]
  /\ calls = [d \in Disps |-> IdleCall]
  /\ returned = <<>>
  /\ lastInsert = NoInsert
  /\ lastCall = NoCall
  /\ \E paused \in BOOLEAN :
       dispatcher = [NewQueue(paused) EXCEPT
                       !.state = IF paused THEN "paused" ELSE "running"]
  /\ CoreIdle

\* Every handler returns, every timer fires and every await of drain() is
\* answered.
LiveSpec ==
  /\ LiveInit
  /\ [][LiveNext]_vars
  /\ WF_vars(\E e \in execs : Finish(e))
  /\ WF_vars(LivePoll)
  /\ WF_vars(LiveFetch)
  /\ WF_vars(LiveWrite)
  /\ WF_vars(DrainWake)

\* C40: drain() returns in every run in which the handlers return, whether
\* the dispatcher of the queue is running or paused.
C40_DrainReturns == (drainPc # "idle") ~> (drainPc = "idle")

====
